---- MODULE Spec2Model ----
(***************************************************************************)
(* Retrieval-and-context-assembly pipeline of the Game of Thrones chatbot: *)
(* the document store (MongoDB collection wikiPages), the excerpt          *)
(* extractor, the context assembler, the rule-based response formatter,    *)
(* the LLM integration with its hallucination filter, the chatbots, the    *)
(* web application, the wiki scraper and the exporter of chunks.           *)
(*                                                                         *)
(* Text is a sequence of one-character strings; positions are 0-based as   *)
(* in Python, and -1 is "not found".                                       *)
(***************************************************************************)
EXTENDS Integers, Sequences, FiniteSets, TLC

VARIABLES
    store,          \* the wikiPages collection: documents in insertion order
    last_write,     \* what the last update_one did: "upserted" or "matched"
    impl,           \* which of the duplicated assemblers is running, or "none"
    query,          \* argument of the running create_context call
    max_chars,      \* argument of the running create_context call
    hits,           \* ranked result of the search inside that call
    context_parts,  \* the local list context_parts at the end of that call
    context,        \* the string create_context returns
    content,        \* doc["content"] given to the excerpt extractor
    search_term,    \* search_term given to the excerpt extractor
    context_chars,  \* context_chars given to the excerpt extractor
    excerpt,        \* the string the excerpt extractor returned
    ex_pc,          \* "idle", or the extractor that produced excerpt
    f_response,     \* response given to _filter_hallucinations
    f_context,      \* context given to _filter_hallucinations
    f_suspects,     \* its local filtered_hallucinations
    f_output,       \* what it returned: the text and the entities its note lists
    f_pc,           \* "idle" or "done"
    llm_provider,   \* LLMIntegration.llm_provider
    api_key,        \* LLMIntegration.api_key
    client,         \* LLMIntegration.client, "unset" while the attribute does not exist
    locations,      \* GOTChatbot.locations
    gen,            \* the class whose generate_response is running, or "none"
    gen_query,      \* its argument query
    gen_context,    \* its argument context
    remote,         \* the remote call inside it: "not_called", "answered" or "failed"
    branch,         \* the formatter it called, "none" when it called none
    answer,         \* what it returned or raised
    chatbot,        \* the chatbot class that was constructed, or "none"
    embeddings,     \* GOTMongoConnection.embeddings
    conversation_history,   \* the chatbot's conversation_history
    pq,             \* the process_question call in progress: its argument, what
                    \* the backend did during it, its locals and its outcome
    import_call,    \* the import in progress in another process: its loop's
                    \* remaining items, its batch and the store it started on
    snapshot,       \* the last find made from another process, until the next
                    \* step is taken: its hits and the import in progress then
    app_chatbot,    \* the web application's module-level chatbot: the number of
                    \* the instance it refers to, 0 while it is None
    instances,      \* the GOTChatbotLLM instances constructed in the web process:
                    \* the conversation_history of each
    requests,       \* the requests of the web process, one thread each: endpoint,
                    \* body, position in the handler, response status
    scraper,        \* a run of the scraper's main: its arguments, the titles it
                    \* fetched and the pages it scraped
    pager,          \* a call of get_all_pages: its locals and the responses so far
    dedup,          \* a call of deduplicate_text: its argument and what it returned
    chunker         \* a call of split_into_chunks on one document: its arguments
                    \* and the locals of the chunking loop

vars == <<store, last_write, impl, query, max_chars, hits, context_parts, context,
          content, search_term, context_chars, excerpt, ex_pc,
          f_response, f_context, f_suspects, f_output, f_pc,
          llm_provider, api_key, client, locations,
          gen, gen_query, gen_context, remote, branch, answer,
          chatbot, embeddings, conversation_history, pq, import_call, snapshot,
          app_chatbot, instances, requests, scraper, pager, dedup, chunker>>

storeVars == <<store, last_write, impl, query, max_chars, hits, context_parts, context>>
excerptVars == <<content, search_term, context_chars, excerpt, ex_pc>>
filterVars == <<f_response, f_context, f_suspects, f_output, f_pc>>

configVars == <<llm_provider, api_key, client, locations>>
genVars == <<gen, gen_query, gen_context, remote, branch, answer>>
chatVars == <<chatbot, embeddings, conversation_history, pq>>
importVars == <<import_call, snapshot>>
webVars == <<app_chatbot, instances, requests>>
toolVars == <<scraper, pager, dedup, chunker>>

\* the variables an operation of one component leaves alone
notStoreVars == <<excerptVars, filterVars, configVars, genVars, chatVars, importVars,
                  webVars, toolVars>>
notExcerptVars == <<storeVars, filterVars, configVars, genVars, chatVars, importVars,
                    webVars, toolVars>>
notFilterVars == <<storeVars, excerptVars, configVars, genVars, chatVars, importVars,
                   webVars, toolVars>>
notGenVars == <<storeVars, excerptVars, filterVars, chatVars, importVars,
                webVars, toolVars>>
notChatVars == <<storeVars, excerptVars, filterVars, genVars, importVars,
                 webVars, toolVars>>
notImportVars == <<excerptVars, filterVars, configVars, genVars, chatVars,
                   webVars, toolVars>>
notWebVars == <<last_write, impl, query, max_chars, hits, context_parts, context,
                excerptVars, filterVars, configVars, genVars, chatVars, importVars, toolVars>>
coreVars == <<storeVars, excerptVars, filterVars, configVars, genVars, chatVars,
              importVars, webVars>>

----------------------------------------------------------------------------
(* Python str primitives *)

Min(S) == CHOOSE x \in S : \A y \in S : x <= y
Max(S) == CHOOSE x \in S : \A y \in S : x >= y
Min2(a, b) == IF a <= b THEN a ELSE b
Max2(a, b) == IF a >= b THEN a ELSE b

UpperChars == <<"A","B","C","D","E","F","G","H","I","J","K","L","M",
                "N","O","P","Q","R","S","T","U","V","W","X","Y","Z">>
LowerChars == <<"a","b","c","d","e","f","g","h","i","j","k","l","m",
                "n","o","p","q","r","s","t","u","v","w","x","y","z">>

UpperSet == {UpperChars[i] : i \in 1..Len(UpperChars)}
ToLower == [c \in UpperSet |->
               LowerChars[CHOOSE i \in 1..Len(UpperChars) : UpperChars[i] = c]]

LowerChar(c) == IF c \in UpperSet THEN ToLower[c] ELSE c

\* the capital I with a dot above, U+0130, whose lower-case form is two
\* characters: i and the combining dot above, U+0307
DottedCapitalI == "U+0130"
CombiningDot == "U+0307"

\* str.lower() of text with U+0130 in it: one character longer for each
RECURSIVE LowerLonger(_)
LowerLonger(s) ==
    IF s = <<>> THEN <<>>
    ELSE (IF Head(s) = DottedCapitalI THEN <<"i", CombiningDot>>
          ELSE <<LowerChar(Head(s))>>) \o LowerLonger(Tail(s))

\* str.lower()
Lower(s) ==
    IF \A i \in 1..Len(s) : s[i] # DottedCapitalI
    THEN [i \in 1..Len(s) |-> LowerChar(s[i])]
    ELSE LowerLonger(s)

\* s[a:b] for 0 <= a
Slice(s, a, b) == SubSeq(s, a + 1, Min2(b, Len(s)))

\* s.find(sub, from)
Find(s, sub, from) ==
    LET cands == {i \in from..(Len(s) - Len(sub)) : Slice(s, i, i + Len(sub)) = sub}
    IN  IF cands = {} THEN -1 ELSE Min(cands)

\* s.rfind(sub, lo, hi) for 0 <= lo, 0 <= hi
RFind(s, sub, lo, hi) ==
    LET cands == {i \in lo..(Min2(hi, Len(s)) - Len(sub)) :
                      Slice(s, i, i + Len(sub)) = sub}
    IN  IF cands = {} THEN -1 ELSE Max(cands)

\* sub in s
Contains(s, sub) == Find(s, sub, 0) >= 0

Whitespace == {" ", "\n", "\t", "\r"}

\* s.strip(chars)
StripChars(s, chars) ==
    LET keep == {i \in 1..Len(s) : s[i] \notin chars}
    IN  IF keep = {} THEN <<>> ELSE SubSeq(s, Min(keep), Max(keep))

\* s.strip()
Strip(s) == StripChars(s, Whitespace)

\* s.split(): the maximal runs of non-whitespace
RECURSIVE SplitWhitespace(_)
SplitWhitespace(s) ==
    LET word == {i \in 1..Len(s) : s[i] \notin Whitespace}
    IN  IF word = {} THEN <<>>
        ELSE LET b == Min(word)
                 gaps == {i \in b..Len(s) : s[i] \in Whitespace}
                 e == IF gaps = {} THEN Len(s) ELSE Min(gaps) - 1
             IN  <<SubSeq(s, b, e)>> \o SplitWhitespace(SubSeq(s, e + 1, Len(s)))

\* s.split(sep)
RECURSIVE Split(_, _)
Split(s, sep) ==
    LET i == Find(s, sep, 0)
    IN  IF i < 0 THEN <<s>>
        ELSE <<Slice(s, 0, i)>> \o Split(Slice(s, i + Len(sep), Len(s)), sep)

LowerSet == {LowerChars[i] : i \in 1..Len(LowerChars)}
Digits == {"0","1","2","3","4","5","6","7","8","9"}
\* the characters the regular expression class \w matches
WordChars == UpperSet \cup LowerSet \cup Digits \cup {"_"}

Ellipsis == <<".", ".", ".">>
ParagraphBreak == <<"\n", "\n">>

\* mutation of Join: a hand-written loop that writes the separator around
\* every part, before the first and after the last too
RECURSIVE Join_fenced(_, _)
Join_fenced(parts, sep) ==
    sep \o (IF parts = <<>> THEN <<>> ELSE parts[1] \o Join_fenced(Tail(parts), sep))

\* sep.join(parts)
RECURSIVE Join(_, _)
Join(parts, sep) ==
    IF parts = <<>> THEN <<>>
    ELSE IF Len(parts) = 1 THEN parts[1]
    ELSE parts[1] \o sep \o Join(Tail(parts), sep)

----------------------------------------------------------------------------
(* Excerpt extractor *)

ParagraphWindow == 500
FallbackChars == 300
FallbackCharsUtils == 200

\* mutation of get_excerpt_range: the window ends context_chars after pos,
\* the length of the search term forgotten
get_excerpt_range_short(text, term, ctx_chars) ==
    LET pos == Find(Lower(text), Lower(term), 0)
        start0 == Max2(0, pos - ctx_chars)
        end0 == Min2(Len(text), pos + ctx_chars)
        paragraph_start == RFind(text, ParagraphBreak, 0, pos)
        paragraph_end == Find(text, ParagraphBreak, pos)
    IN  [pos |-> pos,
         start |-> IF paragraph_start > 0 /\ paragraph_start > pos - ParagraphWindow
                   THEN paragraph_start + 2 ELSE start0,
         end |-> IF paragraph_end > 0 /\ paragraph_end < pos + ParagraphWindow
                 THEN paragraph_end ELSE end0]

\* mutation of get_excerpt_range: the nearest paragraph boundary taken however
\* far from pos it is
get_excerpt_range_unbounded(text, term, ctx_chars) ==
    LET pos == Find(Lower(text), Lower(term), 0)
        start0 == Max2(0, pos - ctx_chars)
        end0 == Min2(Len(text), pos + Len(term) + ctx_chars)
        paragraph_start == RFind(text, ParagraphBreak, 0, pos)
        paragraph_end == Find(text, ParagraphBreak, pos)
    IN  [pos |-> pos,
         start |-> IF paragraph_start > 0 THEN paragraph_start + 2 ELSE start0,
         end |-> IF paragraph_end > 0 THEN paragraph_end ELSE end0]

\* GOTMongoConnection.get_excerpt: pos, and the final start and end
get_excerpt_range(text, term, ctx_chars) ==
    LET pos == Find(Lower(text), Lower(term), 0)
        start0 == Max2(0, pos - ctx_chars)
        end0 == Min2(Len(text), pos + Len(term) + ctx_chars)
        paragraph_start == RFind(text, ParagraphBreak, 0, pos)
        paragraph_end == Find(text, ParagraphBreak, pos)
    IN  [pos |-> pos,
         start |-> IF paragraph_start > 0 /\ paragraph_start > pos - ParagraphWindow
                   THEN paragraph_start + 2 ELSE start0,
         end |-> IF paragraph_end > 0 /\ paragraph_end < pos + ParagraphWindow
                 THEN paragraph_end ELSE end0]

\* mutation of get_excerpt: the closing ellipsis added when end <= len(content)
get_excerpt_suffix_always(text, term, ctx_chars) ==
    LET pos == Find(Lower(text), Lower(term), 0)
        r == get_excerpt_range(text, term, ctx_chars)
        body == Strip(Slice(text, r.start, r.end))
        pre == IF r.start > 0 THEN Ellipsis ELSE <<>>
        post == IF r.end <= Len(text) THEN Ellipsis ELSE <<>>
    IN  IF pos >= 0
        THEN pre \o body \o post
        ELSE Strip(Slice(text, 0, FallbackChars)) \o Ellipsis

\* GOTMongoConnection.get_excerpt
get_excerpt(text, term, ctx_chars) ==
    LET pos == Find(Lower(text), Lower(term), 0)
        r == get_excerpt_range(text, term, ctx_chars)
        body == Strip(Slice(text, r.start, r.end))
        pre == IF r.start > 0 THEN Ellipsis ELSE <<>>
        post == IF r.end < Len(text) THEN Ellipsis ELSE <<>>
    IN  IF pos >= 0
        THEN pre \o body \o post
        ELSE Strip(Slice(text, 0, FallbackChars)) \o Ellipsis

\* mutation of get_content_excerpt_range: the paragraph boundaries searched
\* from pos, as get_excerpt does, instead of from start and end
get_content_excerpt_range_from_pos(text, term, ctx_chars) ==
    LET pos == Find(Lower(text), Lower(term), 0)
        start0 == Max2(0, pos - ctx_chars)
        end0 == Min2(Len(text), pos + Len(term) + ctx_chars)
        paragraph_start == IF start0 > 0 THEN RFind(text, ParagraphBreak, 0, pos) ELSE -1
        paragraph_end == IF end0 < Len(text) THEN Find(text, ParagraphBreak, pos) ELSE -1
    IN  [pos |-> pos,
         start |-> IF paragraph_start > 0 THEN paragraph_start + 2 ELSE start0,
         end |-> IF paragraph_end > 0 THEN paragraph_end ELSE end0]

\* GOTChatbotDB.get_content_excerpt: pos, and the final start and end
get_content_excerpt_range(text, term, ctx_chars) ==
    LET pos == Find(Lower(text), Lower(term), 0)
        start0 == Max2(0, pos - ctx_chars)
        end0 == Min2(Len(text), pos + Len(term) + ctx_chars)
        paragraph_start == IF start0 > 0 THEN RFind(text, ParagraphBreak, 0, start0) ELSE -1
        paragraph_end == IF end0 < Len(text) THEN Find(text, ParagraphBreak, end0) ELSE -1
    IN  [pos |-> pos,
         start |-> IF paragraph_start > 0 THEN paragraph_start + 2 ELSE start0,
         end |-> IF paragraph_end > 0 THEN paragraph_end ELSE end0]

\* GOTChatbotDB.get_content_excerpt
get_content_excerpt(text, term, ctx_chars) ==
    LET pos == Find(Lower(text), Lower(term), 0)
        r == get_content_excerpt_range(text, term, ctx_chars)
    IN  IF pos >= 0
        THEN Strip(Slice(text, r.start, r.end))
        ELSE Strip(Slice(text, 0, FallbackCharsUtils)) \o Ellipsis

----------------------------------------------------------------------------
(* Hallucination filter *)

EntityMinChars == 3
MaxListed == 3

\* string.punctuation, without the grave accent: no text of the model holds one
Punctuation ==
    {"!", "\"", "#", "$", "%", "&", "'", "(", ")", "*", "+", ",", "-", ".", "/", ":", ";", "<",
     "=", ">", "?", "@", "[", "\\", "]", "^", "_", "{", "|", "}", "~"}

\* re.findall(r'\b[A-Z][a-z]+\b', s): an upper-case letter at a word boundary,
\* the whole run of lower-case letters after it, a word boundary behind
capitalized_words(s) ==
    LET RunEnd(i) ==
            LET stops == {j \in (i + 1)..(Len(s) - 1) : s[j + 1] \notin LowerSet}
            IN  IF stops = {} THEN Len(s) ELSE Min(stops)
        starts == {i \in 0..(Len(s) - 1) :
                      /\ s[i + 1] \in UpperSet
                      /\ (i = 0 \/ s[i] \notin WordChars)
                      /\ RunEnd(i) >= i + 2
                      /\ (RunEnd(i) = Len(s) \/ s[RunEnd(i) + 1] \notin WordChars)}
    IN  {Slice(s, i, RunEnd(i)) : i \in starts}

\* LLMIntegration._extract_entities
extract_entities(text) ==
    LET lowered == Lower(text)
        words == capitalized_words(lowered)
        split == SplitWhitespace(lowered)
        tokens == [i \in 1..Len(split) |-> StripChars(split[i], Punctuation)]
        bigrams == {tokens[i] \o <<" ">> \o tokens[i + 1] : i \in 1..(Len(tokens) - 1)}
        trigrams == {tokens[i] \o <<" ">> \o tokens[i + 1] \o <<" ">> \o tokens[i + 2] :
                        i \in 1..(Len(tokens) - 2)}
    IN  {Lower(e) : e \in {x \in words \cup bigrams \cup trigrams : Len(x) > EntityMinChars}}

common_words ==
    {<<"t","h","i","s">>, <<"t","h","a","t">>, <<"t","h","e","s","e">>,
     <<"t","h","o","s","e">>, <<"t","h","e","r","e">>, <<"t","h","e","i","r">>,
     <<"t","h","e","y">>, <<"a","b","o","u","t">>, <<"w","h","i","c","h">>,
     <<"w","o","u","l","d">>, <<"c","o","u","l","d">>, <<"s","h","o","u","l","d">>,
     <<"h","a","v","e">>, <<"b","a","s","e","d">>,
     <<"i","n","f","o","r","m","a","t","i","o","n">>, <<"b","e","c","a","u","s","e">>,
     <<"h","o","w","e","v","e","r">>, <<"w","h","i","l","e">>, <<"s","e","r","i","e","s">>,
     <<"c","h","a","r","a","c","t","e","r">>, <<"s","e","a","s","o","n">>,
     <<"e","p","i","s","o","d","e">>, <<"s","h","o","w">>, <<"m","a","n","y">>,
     <<"m","o","r","e">>, <<"o","t","h","e","r">>, <<"a","n","o","t","h","e","r">>,
     <<"f","i","r","s","t">>, <<"s","e","c","o","n","d">>, <<"l","a","s","t">>,
     <<"n","e","x","t">>, <<"p","r","e","v","i","o","u","s">>,
     <<"f","o","l","l","o","w","i","n","g">>, <<"b","e","f","o","r","e">>,
     <<"a","f","t","e","r">>, <<"d","u","r","i","n","g">>, <<"g","a","m","e">>,
     <<"t","h","r","o","n","e","s">>, <<"w","e","s","t","e","r","o","s">>,
     <<"e","s","s","o","s">>}

\* LLMIntegration._filter_common_words
filter_common_words(entities) == {e \in entities : Lower(e) \notin common_words}

uncertainty_phrases ==
    <<<<"i"," ","d","o","n","'","t"," ","h","a","v","e"," ","i","n","f","o","r","m","a","t","i","o","n">>,
      <<"n","o","t"," ","m","e","n","t","i","o","n","e","d"," ","i","n">>,
      <<"i","s","n","'","t"," ","s","p","e","c","i","f","i","e","d">>,
      <<"n","o","t"," ","s","p","e","c","i","f","i","e","d">>,
      <<"i","s","n","'","t"," ","m","e","n","t","i","o","n","e","d">>,
      <<"n","o","t"," ","p","r","o","v","i","d","e","d">>,
      <<"n","o"," ","i","n","f","o","r","m","a","t","i","o","n">>,
      <<"d","o","n","'","t"," ","k","n","o","w">>,
      <<"i","s","n","'","t"," ","c","l","e","a","r">>, <<"n","o","t"," ","c","l","e","a","r">>,
      <<"b","a","s","e","d"," ","o","n"," ","t","h","e"," ","i","n","f","o","r","m","a","t","i","o","n"," ","i"," ","h","a","v","e">>,
      <<"t","h","e"," ","p","r","o","v","i","d","e","d"," ","c","o","n","t","e","x","t"," ","d","o","e","s","n","'","t">>,
      <<"n","o","t"," ","d","e","t","a","i","l","e","d"," ","i","n">>,
      <<"c","a","n","'","t"," ","d","e","t","e","r","m","i","n","e">>,
      <<"c","a","n","n","o","t"," ","d","e","t","e","r","m","i","n","e">>>>

\* mutation of contains_uncertainty_markers: a phrase and every entity, not
\* some entity, must be in the response
contains_uncertainty_markers_all(response, entities) ==
    LET response_lower == Lower(response)
    IN  /\ \E k \in 1..Len(uncertainty_phrases) :
               Contains(response_lower, uncertainty_phrases[k])
        /\ \A entity \in entities : Contains(response_lower, Lower(entity))

\* LLMIntegration._contains_uncertainty_markers
contains_uncertainty_markers(response, entities) ==
    LET response_lower == Lower(response)
    IN  \E entity \in entities :
            \E k \in 1..Len(uncertainty_phrases) :
                /\ Contains(response_lower, uncertainty_phrases[k])
                /\ Contains(response_lower, Lower(entity))

\* the local filtered_hallucinations of _filter_hallucinations
filtered_hallucinations(response, ctx) ==
    filter_common_words(extract_entities(response) \ extract_entities(ctx))

\* the subsets of S with k elements
RECURSIVE KSubsets(_, _)
KSubsets(S, k) ==
    IF k = 0 THEN {{}}
    ELSE IF S = {} THEN {}
    ELSE LET x == CHOOSE y \in S : TRUE
         IN  KSubsets(S \ {x}, k) \cup {T \cup {x} : T \in KSubsets(S \ {x}, k - 1)}

\* mutation of disclaimer_lists: the list cut one entry early
disclaimer_lists_early(hallucinations) ==
    KSubsets(hallucinations, Min2(MaxListed - 1, Cardinality(hallucinations)))

\* list(hallucinations)[:3] of _create_hallucination_disclaimer: a set has no
\* order of its own, so any MaxListed members can come first; the note is kept
\* as the set of entities it lists
disclaimer_lists(hallucinations) ==
    KSubsets(hallucinations, Min2(MaxListed, Cardinality(hallucinations)))

\* list(S) of a set: a set has no order of its own, any order can come out
ListsOf(S) ==
    {l \in [1..Cardinality(S) -> S] : \A i, j \in 1..Cardinality(S) : i # j => l[i] # l[j]}

Quote == <<"\"">>
CommaSpace == <<",", " ">>
DisclaimerPrefix ==
    <<"N", "o", "t", "e", ":", " ", "S", "o", "m", "e", " ", "d", "e", "t", "a", "i", "l", "s",
      " ", "i", "n", " ", "t", "h", "i", "s", " ", "r", "e", "s", "p", "o", "n", "s", "e", " ",
      "m", "i", "g", "h", "t", " ", "e", "x", "t", "e", "n", "d", " ", "b", "e", "y", "o", "n",
      "d", " ", "t", "h", "e", " ", "i", "n", "f", "o", "r", "m", "a", "t", "i", "o", "n", " ",
      "p", "r", "o", "v", "i", "d", "e", "d", " ", "i", "n", " ", "t", "h", "e", " ", "c", "o",
      "n", "t", "e", "x", "t", ".", " ", "T", "h", "e", " ", "i", "n", "f", "o", "r", "m", "a",
      "t", "i", "o", "n", " ", "a", "b", "o", "u", "t", " ">>
DisclaimerSuffix ==
    <<" ", "i", "s", " ", "n", "o", "t", " ", "e", "x", "p", "l", "i", "c", "i", "t", "l", "y",
      " ", "m", "e", "n", "t", "i", "o", "n", "e", "d", " ", "i", "n", " ", "t", "h", "e", " ",
      "p", "r", "o", "v", "i", "d", "e", "d", " ", "d", "a", "t", "a", "s", "e", "t", ".", " ",
      "P", "l", "e", "a", "s", "e", " ", "c", "o", "n", "s", "i", "d", "e", "r", " ", "t", "h",
      "i", "s", " ", "i", "n", "f", "o", "r", "m", "a", "t", "i", "o", "n", " ", "w", "i", "t",
      "h", " ", "c", "a", "u", "t", "i", "o", "n", ".">>

\* _create_hallucination_disclaimer, for hallucination_list as it came out of
\* list(hallucinations)[:3]
create_hallucination_disclaimer(hallucination_list) ==
    DisclaimerPrefix
        \o Join([i \in 1..Len(hallucination_list) |->
                    Quote \o hallucination_list[i] \o Quote], CommaSpace)
        \o DisclaimerSuffix

\* LLMIntegration._filter_hallucinations: what it can return, the text of the
\* response, the entities listed in the note appended to it (none: no note)
\* and the string returned, note included
filter_hallucinations(response, ctx) ==
    IF response = <<>> THEN {[text |-> response, flagged |-> {}, returned |-> response]}
    ELSE LET suspects == filtered_hallucinations(response, ctx)
         IN  IF suspects = {} \/ contains_uncertainty_markers(response, suspects)
             THEN {[text |-> response, flagged |-> {}, returned |-> response]}
             ELSE UNION {{[text |-> response, flagged |-> F,
                           returned |-> response \o ParagraphBreak
                                            \o create_hallucination_disclaimer(l)] :
                              l \in ListsOf(F)} : F \in disclaimer_lists(suspects)}

----------------------------------------------------------------------------
(* Response formatter *)

AboutMinChars == 100
ProcessMinChars == 150
GeneralMinChars == 100
QueryWordMinChars == 3

TitleRule == <<"-", "-", "-">>
Period == <<".">>
Space == <<" ">>
UnknownTitle ==
    <<"u", "n", "k", "n", "o", "w", "n">>

no_info_responses ==
    <<<<"I"," ","d","o","n","'","t"," ","h","a","v","e"," ","e","n","o","u","g","h"," ","i","n","f","o","r","m","a","t","i","o","n"," ","a","b","o","u","t"," ","t","h","a","t"," ","i","n"," ","m","y"," ","G","a","m","e"," ","o","f"," ","T","h","r","o","n","e","s"," ","k","n","o","w","l","e","d","g","e",".">>,
      <<"T","h","a","t"," ","d","o","e","s","n","'","t"," ","a","p","p","e","a","r"," ","i","n"," ","m","y"," ","r","e","c","o","r","d","s"," ","o","f"," ","W","e","s","t","e","r","o","s"," ","a","n","d"," ","E","s","s","o","s",".">>,
      <<"T","h","e"," ","m","a","e","s","t","e","r","s"," ","h","a","v","e","n","'","t"," ","r","e","c","o","r","d","e","d"," ","t","h","a","t"," ","i","n","f","o","r","m","a","t","i","o","n"," ","i","n"," ","m","y"," ","a","r","c","h","i","v","e","s",".">>,
      <<"I"," ","d","o","n","'","t"," ","k","n","o","w"," ","a","b","o","u","t"," ","t","h","a","t"," ","a","s","p","e","c","t"," ","o","f"," ","G","a","m","e"," ","o","f"," ","T","h","r","o","n","e","s","."," ","W","o","u","l","d"," ","y","o","u"," ","l","i","k","e"," ","t","o"," ","a","s","k"," ","a","b","o","u","t"," ","o","n","e"," ","o","f"," ","t","h","e"," ","m","a","i","n"," ","c","h","a","r","a","c","t","e","r","s"," ","o","r"," ","h","o","u","s","e","s"," ","i","n","s","t","e","a","d","?">>,
      <<"M","y"," ","k","n","o","w","l","e","d","g","e"," ","o","f"," ","t","h","e"," ","S","e","v","e","n"," ","K","i","n","g","d","o","m","s"," ","d","o","e","s","n","'","t"," ","i","n","c","l","u","d","e"," ","t","h","a","t"," ","i","n","f","o","r","m","a","t","i","o","n",".">>,
      <<"E","v","e","n"," ","t","h","e"," ","S","p","i","d","e","r","'","s"," ","l","i","t","t","l","e"," ","b","i","r","d","s"," ","h","a","v","e","n","'","t"," ","w","h","i","s","p","e","r","e","d"," ","t","h","a","t"," ","t","o"," ","m","e"," ","y","e","t",".">>>>

known_locations ==
    <<<<"W","i","n","t","e","r","f","e","l","l">>,
      <<"K","i","n","g","'","s"," ","L","a","n","d","i","n","g">>,
      <<"T","h","e"," ","W","a","l","l">>,
      <<"C","a","s","t","e","r","l","y"," ","R","o","c","k">>,
      <<"D","r","a","g","o","n","s","t","o","n","e">>, <<"T","h","e"," ","N","o","r","t","h">>,
      <<"T","h","e"," ","R","i","v","e","r","l","a","n","d","s">>,
      <<"T","h","e"," ","V","a","l","e">>,
      <<"T","h","e"," ","W","e","s","t","e","r","l","a","n","d","s">>,
      <<"T","h","e"," ","R","e","a","c","h">>, <<"D","o","r","n","e">>,
      <<"T","h","e"," ","I","r","o","n"," ","I","s","l","a","n","d","s">>,
      <<"T","h","e"," ","S","t","o","r","m","l","a","n","d","s">>,
      <<"B","r","a","a","v","o","s">>, <<"V","o","l","a","n","t","i","s">>,
      <<"P","e","n","t","o","s">>, <<"M","e","e","r","e","e","n">>,
      <<"A","s","t","a","p","o","r">>, <<"Y","u","n","k","a","i">>, <<"Q","a","r","t","h">>,
      <<"V","a","l","y","r","i","a">>>>

time_indicators ==
    <<<<"d","u","r","i","n","g">>, <<"a","f","t","e","r">>, <<"b","e","f","o","r","e">>,
      <<"w","h","e","n">>, <<"a","t"," ","t","h","e"," ","t","i","m","e">>,
      <<"f","o","l","l","o","w","i","n","g">>, <<"A","C">>, <<"B","C">>, <<"a","g","e">>,
      <<"y","e","a","r">>>>

reason_indicators ==
    <<<<"b","e","c","a","u","s","e">>, <<"d","u","e"," ","t","o">>,
      <<"a","s"," ","a"," ","r","e","s","u","l","t">>, <<"r","e","a","s","o","n">>,
      <<"m","o","t","i","v","a","t","e","d"," ","b","y">>,
      <<"i","n","t","e","n","d","e","d"," ","t","o">>>>

AboutPrefix ==
    <<"B", "a", "s", "e", "d", " ", "o", "n", " ", "t", "h", "e", " ", "G", "a", "m", "e", " ",
      "o", "f", " ", "T", "h", "r", "o", "n", "e", "s", " ", "l", "o", "r", "e", " ", "a", "b",
      "o", "u", "t", " ">>
AboutComma ==
    <<",", " ">>
LocationDefault ==
    <<"i", "s", " ", "m", "e", "n", "t", "i", "o", "n", "e", "d", " ", "i", "n", " ", "t", "h",
      "e", " ", "G", "a", "m", "e", " ", "o", "f", " ", "T", "h", "r", "o", "n", "e", "s", " ",
      "u", "n", "i", "v", "e", "r", "s", "e">>
LocationFallbackPrefix ==
    <<"B", "a", "s", "e", "d", " ", "o", "n", " ", "t", "h", "e", " ", "G", "a", "m", "e", " ",
      "o", "f", " ", "T", "h", "r", "o", "n", "e", "s", " ", "l", "o", "r", "e", ",", " ">>
TimePrefix ==
    <<"A", "c", "c", "o", "r", "d", "i", "n", "g", " ", "t", "o", " ", "G", "a", "m", "e", " ",
      "o", "f", " ", "T", "h", "r", "o", "n", "e", "s", " ", "h", "i", "s", "t", "o", "r", "y",
      ",", " ">>
TimeFallbackPrefix ==
    <<"B", "a", "s", "e", "d", " ", "o", "n", " ", "G", "a", "m", "e", " ", "o", "f", " ", "T",
      "h", "r", "o", "n", "e", "s", " ", "c", "h", "r", "o", "n", "o", "l", "o", "g", "y", ",",
      " ">>
ReasonPrefix ==
    <<"I", "n", " ", "t", "h", "e", " ", "G", "a", "m", "e", " ", "o", "f", " ", "T", "h", "r",
      "o", "n", "e", "s", " ", "w", "o", "r", "l", "d", ",", " ">>
ReasonFallbackPrefix ==
    <<"A", "c", "c", "o", "r", "d", "i", "n", "g", " ", "t", "o", " ", "G", "a", "m", "e", " ",
      "o", "f", " ", "T", "h", "r", "o", "n", "e", "s", " ", "l", "o", "r", "e", ",", " ">>
ProcessPrefix ==
    <<"H", "e", "r", "e", "'", "s", " ", "h", "o", "w", " ", "i", "t", " ", "h", "a", "p", "p",
      "e", "n", "e", "d", " ", "i", "n", " ", "G", "a", "m", "e", " ", "o", "f", " ", "T", "h",
      "r", "o", "n", "e", "s", ":", " ">>
GeneralMatchPrefix ==
    <<"I", "n", " ", "G", "a", "m", "e", " ", "o", "f", " ", "T", "h", "r", "o", "n", "e", "s",
      ":", " ">>
GeneralPrefix ==
    <<"A", "c", "c", "o", "r", "d", "i", "n", "g", " ", "t", "o", " ", "G", "a", "m", "e", " ",
      "o", "f", " ", "T", "h", "r", "o", "n", "e", "s", " ", "l", "o", "r", "e", ":", " ">>
SorryPrefix ==
    <<"S", "o", "r", "r", "y", ",", " ", "I", " ", "e", "n", "c", "o", "u", "n", "t", "e", "r",
      "e", "d", " ", "a", "n", " ", "e", "r", "r", "o", "r", ":", " ">>
SorrySuffix ==
    <<".", " ", "P", "l", "e", "a", "s", "e", " ", "t", "r", "y", " ", "a", "g", "a", "i", "n",
      ".">>

\* next((p for p in paragraphs if len(p) > n), paragraphs[0])
FirstLongerThan(paragraphs, n) ==
    LET long == {i \in 1..Len(paragraphs) : Len(paragraphs[i]) > n}
    IN  IF long = {} THEN paragraphs[1] ELSE paragraphs[Min(long)]

\* the first of the indices found by a loop that returns at its first find,
\* 0 when it finds none
FirstIndex(found) == IF found = {} THEN 0 ELSE Min(found)

\* _get_no_info_response: random.choice gives any of the phrases
get_no_info_response == {no_info_responses[i] : i \in 1..Len(no_info_responses)}

\* _format_response_about
format_response_about(entity, ctx) ==
    AboutPrefix \o entity \o AboutComma
        \o FirstLongerThan(Split(ctx, ParagraphBreak), AboutMinChars)

\* _format_location_response, on the list of locations it walks through
format_location_response(location_list, q, ctx) ==
    LET Mentioned(location) == Contains(Lower(ctx), Lower(location))
        k == FirstIndex({i \in 1..Len(location_list) : Mentioned(location_list[i])})
        paragraphs == Split(ctx, ParagraphBreak)
        Mentions(p) == Contains(Lower(p), Lower(location_list[k]))
        j == FirstIndex({i \in 1..Len(paragraphs) : Mentions(paragraphs[i])})
    IN  IF k = 0 THEN LocationFallbackPrefix \o paragraphs[1]
        ELSE location_list[k] \o Space
                 \o (IF j = 0 THEN LocationDefault ELSE paragraphs[j])

\* the sentence of ctx around position index: context[start:end].strip()
sentence_around(ctx, index) ==
    LET start == Max2(0, RFind(ctx, Period, 0, index) + 1)
        dot == Find(ctx, Period, index)
        end == IF dot < 0 THEN Len(ctx) ELSE dot
    IN  Strip(Slice(ctx, start, end))

\* the loop shared by _format_time_response and _format_reason_response
format_indicator_response(indicators, prefix, fallback_prefix, ctx) ==
    LET Occurs(indicator) == Find(Lower(ctx), Lower(indicator), 0) >= 0
        k == FirstIndex({i \in 1..Len(indicators) : Occurs(indicators[i])})
    IN  IF k = 0 THEN fallback_prefix \o Split(ctx, ParagraphBreak)[1]
        ELSE prefix
                 \o sentence_around(ctx, Find(Lower(ctx), Lower(indicators[k]), 0))
                 \o Period

\* _format_time_response
format_time_response(q, ctx) ==
    format_indicator_response(time_indicators, TimePrefix, TimeFallbackPrefix, ctx)

\* _format_reason_response
format_reason_response(q, ctx) ==
    format_indicator_response(reason_indicators, ReasonPrefix, ReasonFallbackPrefix, ctx)

\* _format_process_response
format_process_response(q, ctx) ==
    ProcessPrefix \o FirstLongerThan(Split(ctx, ParagraphBreak), ProcessMinChars)

\* _format_general_response
format_general_response(q, ctx) ==
    LET paragraphs == Split(ctx, ParagraphBreak)
        split == SplitWhitespace(q)
        query_words == {Lower(split[i]) :
                           i \in {n \in 1..Len(split) : Len(split[n]) > QueryWordMinChars}}
        HasWord(p) == \E word \in query_words : Contains(Lower(p), word)
        j == FirstIndex({i \in 1..Len(paragraphs) : HasWord(paragraphs[i])})
    IN  IF j # 0 THEN GeneralMatchPrefix \o paragraphs[j]
        ELSE GeneralPrefix \o FirstLongerThan(paragraphs, GeneralMinChars)

\* context.split("---")[1].strip() if len(context.split("---")) > 1 else "unknown"
first_title(ctx) ==
    LET pieces == Split(ctx, TitleRule)
    IN  IF Len(pieces) > 1 THEN Strip(pieces[2]) ELSE UnknownTitle

K_who == <<"w","h","o">>
K_what_is == <<"w","h","a","t"," ","i","s">>
K_where == <<"w","h","e","r","e">>
K_when == <<"w","h","e","n">>
K_why == <<"w","h","y">>
K_how == <<"h","o","w">>

\* mutation of classify: "why" is looked for before "who" and "what is"
classify_why_first(q) ==
    LET ql == Lower(q)
    IN  IF Contains(ql, K_why) THEN "reason"
        ELSE IF Contains(ql, K_who) \/ Contains(ql, K_what_is) THEN "about"
        ELSE IF Contains(ql, K_where) THEN "location"
        ELSE IF Contains(ql, K_when) THEN "time"
        ELSE IF Contains(ql, K_how) THEN "process"
        ELSE "general"

\* the if/elif chain of _generate_fallback_response and of
\* GOTChatbot.generate_response: the formatter the query goes to
classify(q) ==
    LET ql == Lower(q)
    IN  IF Contains(ql, K_who) \/ Contains(ql, K_what_is) THEN "about"
        ELSE IF Contains(ql, K_where) THEN "location"
        ELSE IF Contains(ql, K_when) THEN "time"
        ELSE IF Contains(ql, K_why) THEN "reason"
        ELSE IF Contains(ql, K_how) THEN "process"
        ELSE "general"

\* the answer of the formatter the chain selects
formatted(kind, location_list, q, ctx) ==
    CASE kind = "about" -> format_response_about(first_title(ctx), ctx)
      [] kind = "location" -> format_location_response(location_list, q, ctx)
      [] kind = "time" -> format_time_response(q, ctx)
      [] kind = "reason" -> format_reason_response(q, ctx)
      [] kind = "process" -> format_process_response(q, ctx)
      [] OTHER -> format_general_response(q, ctx)

\* LLMIntegration._generate_fallback_response and GOTChatbot.generate_response:
\* the branches they can take and the text each returns
rule_based_responses(location_list, q, ctx) ==
    IF ctx = <<>>
    THEN {[branch |-> "no_info", text |-> t] : t \in get_no_info_response}
    ELSE {[branch |-> classify(q),
           text |-> formatted(classify(q), location_list, q, ctx)]}

----------------------------------------------------------------------------
(* LLM integration *)

None == "None"
Placeholder == "placeholder"
Providers == {"openai", "anthropic"}

\* what __init__ reads when api_keys.json is missing, unreadable or names no
\* provider with a key
NoFile == [provider |-> None, api_key |-> None]

\* the part of __init__ that reads api_keys.json; file is what the file holds
load_from_file(file) ==
    IF file = NoFile THEN [llm_provider |-> None, api_key |-> None]
    ELSE IF file.api_key = Placeholder
         THEN [llm_provider |-> file.provider, api_key |-> None]
         ELSE [llm_provider |-> file.provider, api_key |-> file.api_key]

\* _load_from_env: env.provider is LLM_PROVIDER in lower case ("" when unset),
\* env.api_key the key variable of that provider (None when unset)
load_from_env(self, env) ==
    IF env.provider = "" THEN self
    ELSE IF env.provider \in Providers
         THEN [llm_provider |-> env.provider, api_key |-> env.api_key]
         ELSE [llm_provider |-> env.provider, api_key |-> self.api_key]

\* _initialize_provider: library says whether the provider's package imports
\* and its client constructs; the early return leaves self.client unset
initialize_provider(self, library) ==
    IF self.llm_provider = None \/ self.api_key = None
    THEN [llm_provider |-> self.llm_provider, api_key |-> self.api_key, client |-> "unset"]
    ELSE IF self.llm_provider \in Providers
         THEN [llm_provider |-> self.llm_provider, api_key |-> self.api_key,
               client |-> IF library = "installed" THEN "client" ELSE None]
         ELSE [llm_provider |-> self.llm_provider, api_key |-> self.api_key,
               client |-> "unset"]

\* LLMIntegration.__init__
LLMIntegration_init(file, env, library) ==
    LET from_file == load_from_file(file)
        loaded == IF from_file.api_key = None THEN load_from_env(from_file, env)
                  ELSE from_file
    IN  initialize_provider(loaded, library)

NoResponse == [kind |-> "none", text |-> <<>>, flagged |-> {}, note |-> "none"]

\* the outcomes of LLMIntegration.generate_response; outcome is what the
\* remote call does if it is made. A returned answer is kept as its text, the
\* entities of the filter's note and the tag of the parenthesised note
generate_response_outcomes(self, q, ctx, outcome) ==
    IF self.client = "unset"
    THEN {[remote |-> "not_called", branch |-> "none",
           response |-> [kind |-> "raise", text |-> <<>>, flagged |-> {},
                         note |-> "AttributeError"]]}
    ELSE IF self.client = None \/ self.llm_provider \notin Providers
    THEN {[remote |-> "not_called", branch |-> r.branch,
           response |-> [kind |-> "return", text |-> r.text, flagged |-> {},
                         note |-> "rule_based"]] :
              r \in rule_based_responses(known_locations, q, ctx)}
    ELSE IF outcome.ok
    THEN {[remote |-> "answered", branch |-> "none",
           response |-> [kind |-> "return", text |-> f.text, flagged |-> f.flagged,
                         note |-> self.llm_provider]] :
              f \in filter_hallucinations(outcome.text, ctx)}
    ELSE {[remote |-> "failed", branch |-> "none",
           response |-> [kind |-> "return",
                         text |-> SorryPrefix \o outcome.text \o SorrySuffix,
                         flagged |-> {}, note |-> "none"]]}

----------------------------------------------------------------------------
(* Document store: the wikiPages collection *)

Absent == <<"<absent>">>

FieldNames == {"title", "content", "filename"}

\* a document as a total record; a field the document lacks holds Absent
Doc(title, text, filename) == [title |-> title, content |-> text, filename |-> filename]

\* doc.get(field, default)
DocGet(doc, field, default) == IF doc[field] = Absent THEN default ELSE doc[field]

\* mutation of SetFields: replace_one, the stored document becomes document
SetFields_replace(old, document) == document

\* mutation of SetFields: {"$setOnInsert": document}, a stored document stays
SetFields_on_insert(old, document) == old

\* {"$set": document}: the fields of document overwrite, the others stay
SetFields(old, document) ==
    [f \in FieldNames |-> IF document[f] = Absent THEN old[f] ELSE document[f]]

\* mutation of update_one_upsert: insert_one, whatever is stored
update_one_as_insert(coll, document) == Append(coll, document)

\* collection.update_one({"title": t}, {"$set": document}, upsert=True)
update_one_upsert(coll, document) ==
    LET matching == {i \in 1..Len(coll) : coll[i].title = document.title}
    IN  IF matching = {}
        THEN Append(coll, document)
        ELSE [coll EXCEPT ![Min(matching)] = SetFields(@, document)]

\* the UpdateResult of that call: upserted_id set, or a document matched
update_result(coll, document) ==
    IF \E i \in 1..Len(coll) : coll[i].title = document.title
    THEN "matched" ELSE "upserted"

\* collection.count_documents({})
count_documents(coll) == Len(coll)

\* collection.find_one({"title": t}): the documents a title selects
TitleMatches(coll, title) == {i \in 1..Len(coll) : coll[i].title = title}

\* sanitize_filename(title) + ".txt", kept opaque: one name per title
FileNameOf(title) == <<"file:">> \o title

\* the for loop of import_from_directory over the .txt files of a directory;
\* a file is [filename, title, content] as split at the first blank line
RECURSIVE import_directory_loop(_, _)
import_directory_loop(db, files) ==
    IF files = <<>> THEN db
    ELSE LET f == Head(files)
             document == Doc(Strip(f.title), Strip(f.content), f.filename)
         IN  import_directory_loop(
                 [coll |-> update_one_upsert(db.coll, document),
                  last |-> update_result(db.coll, document)], Tail(files))

\* the for loop of import_from_jsonl over the lines of a file; a line is the
\* parsed JSON object, or a line without "title" (KeyError, caught per line)
RECURSIVE import_jsonl_loop(_, _)
import_jsonl_loop(db, lines) ==
    IF lines = <<>> THEN db
    ELSE LET document == Head(lines)
         IN  IF document.title = Absent
             THEN import_jsonl_loop(db, Tail(lines))
             ELSE import_jsonl_loop(
                      [coll |-> update_one_upsert(db.coll, document),
                       last |-> update_result(db.coll, document)], Tail(lines))

----------------------------------------------------------------------------
(* Context assembler *)

DefaultContextChars == 150
DefaultContextCharsUtils == 100
HeaderCost == 10
HeaderCostUtils == 20

Unknown == <<"U","n","k","n","o","w","n">>

\* f"--- {title} ---\n{excerpt}"
Block(title, ex) ==
    <<"-","-","-"," ">> \o title \o <<" ","-","-","-","\n">> \o ex

\* what create_context adds to total_chars for a hit
block_cost(doc, q) ==
    Len(get_excerpt(DocGet(doc, "content", <<>>), q, DefaultContextChars))
        + Len(DocGet(doc, "title", Unknown)) + HeaderCost

\* what create_chatbot_context adds to total_chars for a hit
block_cost_utils(doc, q) ==
    Len(get_content_excerpt(DocGet(doc, "content", <<>>), q, DefaultContextCharsUtils))
        + HeaderCostUtils

\* mutation of create_context_loop: break at the first hit that does not fit
RECURSIVE create_context_loop_break(_, _, _, _, _)
create_context_loop_break(results, q, limit_chars, parts, total_chars) ==
    IF results = <<>> THEN parts
    ELSE LET doc == Head(results)
             title == DocGet(doc, "title", Unknown)
             ex == get_excerpt(DocGet(doc, "content", <<>>), q, DefaultContextChars)
             cost == block_cost(doc, q)
         IN  IF total_chars + cost <= limit_chars
             THEN create_context_loop_break(Tail(results), q, limit_chars,
                                      Append(parts, Block(title, ex)), total_chars + cost)
             ELSE parts

\* the for loop of create_context: context_parts after the remaining results
RECURSIVE create_context_loop(_, _, _, _, _)
create_context_loop(results, q, limit_chars, parts, total_chars) ==
    IF results = <<>> THEN parts
    ELSE LET doc == Head(results)
             title == DocGet(doc, "title", Unknown)
             ex == get_excerpt(DocGet(doc, "content", <<>>), q, DefaultContextChars)
             cost == block_cost(doc, q)
         IN  IF total_chars + cost <= limit_chars
             THEN create_context_loop(Tail(results), q, limit_chars,
                                      Append(parts, Block(title, ex)), total_chars + cost)
             ELSE create_context_loop(Tail(results), q, limit_chars, parts, total_chars)

\* mutation of create_chatbot_context_loop: each block goes in front
RECURSIVE create_chatbot_context_loop_front(_, _, _, _, _)
create_chatbot_context_loop_front(results, q, limit_chars, parts, total_chars) ==
    IF results = <<>> THEN parts
    ELSE LET doc == Head(results)
             ex == get_content_excerpt(DocGet(doc, "content", <<>>), q,
                                       DefaultContextCharsUtils)
             cost == block_cost_utils(doc, q)
         IN  IF total_chars + cost <= limit_chars
             THEN create_chatbot_context_loop_front(Tail(results), q, limit_chars,
                                      <<Block(doc.title, ex)>> \o parts, total_chars + cost)
             ELSE create_chatbot_context_loop_front(Tail(results), q, limit_chars, parts,
                                      total_chars)

\* the for loop of create_chatbot_context
RECURSIVE create_chatbot_context_loop(_, _, _, _, _)
create_chatbot_context_loop(results, q, limit_chars, parts, total_chars) ==
    IF results = <<>> THEN parts
    ELSE LET doc == Head(results)
             ex == get_content_excerpt(DocGet(doc, "content", <<>>), q,
                                       DefaultContextCharsUtils)
             cost == block_cost_utils(doc, q)
         IN  IF total_chars + cost <= limit_chars
             THEN create_chatbot_context_loop(Tail(results), q, limit_chars,
                                      Append(parts, Block(doc.title, ex)), total_chars + cost)
             ELSE create_chatbot_context_loop(Tail(results), q, limit_chars, parts,
                                      total_chars)

\* collection.find({"$text": ...}).sort(textScore).limit(limit): the ranking is
\* the database's; any selection of distinct documents in any order, at most
\* limit of them (none when nothing matches or the call raises and is caught)
RankedHits(coll, limit) ==
    LET n == Len(coll)
        idx == UNION {[1..k -> 1..n] : k \in 0..Min2(limit, n)}
        inj == {s \in idx : \A i, j \in 1..Len(s) : i # j => s[i] # s[j]}
    IN  {[i \in 1..Len(s) |-> coll[s[i]]] : s \in inj}

----------------------------------------------------------------------------
(* Search with a backend that can fail, and the chatbots' process_question *)

ChatMaxDocs == 5
ChatMaxContextChars == 4000
HistoryPreviewChars == 100

\* what the backend does during one call: env.count is the outcome of
\* vector_collection.count_documents ("empty", "nonempty" or "raise"),
\* env.embed that of embeddings.embed_query, env.vquery that of the vector
\* aggregate and env.text that of the $text find ("ok" or "raise")
BackendEnvs ==
    [count : {"empty", "nonempty", "raise"}, embed : {"ok", "raise"},
     vquery : {"ok", "raise"}, text : {"ok", "raise"}]

\* GOTMongoConnection.search: the hits, none when the find raises
search(coll, limit, env) ==
    IF env.text = "raise" THEN {<<>>} ELSE RankedHits(coll, limit)

\* GOTChatbotDB.text_search: the hits, or the exception of the find
text_search(coll, limit, env) ==
    IF env.text = "raise" THEN {[raised |-> TRUE, hits |-> <<>>]}
    ELSE {[raised |-> FALSE, hits |-> h] : h \in RankedHits(coll, limit)}

\* the documents of the vector collection create_vector_index made of the
\* pages: title and content, no filename; the ranking is the database's
VectorHits(coll, limit) ==
    {[i \in 1..Len(h) |-> Doc(h[i].title, h[i].content, Absent)] :
        h \in RankedHits(coll, limit)}

\* GOTMongoConnection.vector_search: the hits and whether they are those of
\* the text search it falls back to
vector_search(emb, coll, limit, env) ==
    IF emb = None \/ env.embed = "raise" \/ env.vquery = "raise"
    THEN {[fallback |-> TRUE, hits |-> h] : h \in search(coll, limit, env)}
    ELSE {[fallback |-> FALSE, hits |-> h] : h \in VectorHits(coll, limit)}

\* GOTMongoConnection.create_context: path is the search it selected
\* ("check" while it has selected none), raised whether it raised
create_context_outcomes(emb, coll, q, max_docs, limit_chars, env) ==
    IF emb # None /\ env.count = "raise"
    THEN {[raised |-> TRUE, path |-> "check", fallback |-> FALSE, hits |-> <<>>,
           context |-> <<>>]}
    ELSE IF emb # None /\ env.count = "nonempty"
    THEN {[raised |-> FALSE, path |-> "vector", fallback |-> r.fallback, hits |-> r.hits,
           context |-> Join(create_context_loop(r.hits, q, limit_chars, <<>>, 0),
                            ParagraphBreak)] :
              r \in vector_search(emb, coll, max_docs, env)}
    ELSE {[raised |-> FALSE, path |-> "lexical", fallback |-> FALSE, hits |-> h,
           context |-> Join(create_context_loop(h, q, limit_chars, <<>>, 0),
                            ParagraphBreak)] :
              h \in search(coll, max_docs, env)}

\* GOTChatbotDB.create_chatbot_context
create_chatbot_context_outcomes(coll, q, max_documents, limit_chars, env) ==
    {[raised |-> r.raised, path |-> "lexical", fallback |-> FALSE, hits |-> r.hits,
      context |-> Join(create_chatbot_context_loop(r.hits, q, limit_chars, <<>>, 0),
                       ParagraphBreak)] :
         r \in text_search(coll, max_documents, env)}

PlaceholderNoInfo ==
    <<"I", " ", "d", "o", "n", "'", "t", " ", "h", "a", "v", "e", " ", "e", "n", "o", "u", "g",
      "h", " ", "i", "n", "f", "o", "r", "m", "a", "t", "i", "o", "n", " ", "a", "b", "o", "u",
      "t", " ", "t", "h", "a", "t", " ", "i", "n", " ", "m", "y", " ", "G", "a", "m", "e", " ",
      "o", "f", " ", "T", "h", "r", "o", "n", "e", "s", " ", "k", "n", "o", "w", "l", "e", "d",
      "g", "e", ".", " ", "C", "o", "u", "l", "d", " ", "y", "o", "u", " ", "a", "s", "k", " ",
      "s", "o", "m", "e", "t", "h", "i", "n", "g", " ", "e", "l", "s", "e", " ", "a", "b", "o",
      "u", "t", " ", "t", "h", "e", " ", "s", "e", "r", "i", "e", "s", ",", " ", "c", "h", "a",
      "r", "a", "c", "t", "e", "r", "s", ",", " ", "o", "r", " ", "l", "o", "r", "e", "?">>
PlaceholderPrefix ==
    <<"H", "e", "r", "e", "'", "s", " ", "w", "h", "a", "t", " ", "I", " ", "k", "n", "o", "w",
      " ", "a", "b", "o", "u", "t", " ", "'">>
PlaceholderMiddle ==
    <<"'", ":", "\n", "\n">>
PlaceholderSuffix ==
    <<"\n", "\n", "T", "h", "i", "s", " ", "i", "s", " ", "w", "h", "e", "r", "e", " ", "y",
      "o", "u", " ", "w", "o", "u", "l", "d", " ", "i", "n", "t", "e", "g", "r", "a", "t", "e",
      " ", "w", "i", "t", "h", " ", "a", "n", " ", "L", "L", "M", " ", "A", "P", "I", " ", "t",
      "o", " ", "g", "e", "n", "e", "r", "a", "t", "e", " ", "a", " ", "p", "r", "o", "p", "e",
      "r", " ", "r", "e", "s", "p", "o", "n", "s", "e", " ", "b", "a", "s", "e", "d", " ", "o",
      "n", " ", "t", "h", "i", "s", " ", "c", "o", "n", "t", "e", "x", "t", ".">>
LLMChatNoInfo ==
    <<"I", " ", "d", "o", "n", "'", "t", " ", "h", "a", "v", "e", " ", "e", "n", "o", "u", "g",
      "h", " ", "i", "n", "f", "o", "r", "m", "a", "t", "i", "o", "n", " ", "a", "b", "o", "u",
      "t", " ", "t", "h", "a", "t", " ", "i", "n", " ", "m", "y", " ", "G", "a", "m", "e", " ",
      "o", "f", " ", "T", "h", "r", "o", "n", "e", "s", " ", "k", "n", "o", "w", "l", "e", "d",
      "g", "e", ".">>
NoneText ==
    <<"N", "o", "n", "e">>

\* mutation of placeholder_generate_response: the empty context is templated
\* like any other
placeholder_generate_response_templated(q, ctx) ==
    PlaceholderPrefix \o q \o PlaceholderMiddle \o ctx \o PlaceholderSuffix

\* generate_response of the placeholder GOTChatbot of chatbot.py
placeholder_generate_response(q, ctx) ==
    IF ctx = <<>> THEN PlaceholderNoInfo
    ELSE PlaceholderPrefix \o q \o PlaceholderMiddle \o ctx \o PlaceholderSuffix

\* the preview without its trailing marker
context_used_bare(ctx) ==
    IF ctx # <<>> THEN Slice(ctx, 0, HistoryPreviewChars) ELSE NoneText

\* context[:100] + "..." if context else "None"
context_used(ctx) ==
    IF ctx # <<>> THEN Slice(ctx, 0, HistoryPreviewChars) \o Ellipsis ELSE NoneText

NoQuestion ==
    [question |-> <<>>, env |-> [count |-> "empty", embed |-> "ok", vquery |-> "ok",
                                 text |-> "ok"],
     raised |-> FALSE, path |-> "none", fallback |-> FALSE, hits |-> <<>>,
     context |-> <<>>, kind |-> "none", response |-> <<>>]

\* the call frame of a process_question that got context c and ended with
\* the outcome kind ("return" or "raise") and the response
Question(q, env, c, kind, response) ==
    [question |-> q, env |-> env, raised |-> c.raised, path |-> c.path,
     fallback |-> c.fallback, hits |-> c.hits, context |-> c.context,
     kind |-> kind, response |-> response]

\* the responses the chatbot's generator gives for the context: the rule-based
\* GOTChatbot.generate_response, the branch of GOTChatbotLLM.process_question
\* around llm.generate_response, or the placeholder
chatbot_responses(bot, self, location_list, q, ctx, outcome) ==
    CASE bot = "GOTChatbot" ->
             {[kind |-> "return", text |-> r.text] :
                 r \in rule_based_responses(location_list, q, ctx)}
      [] bot = "GOTChatbotLLM" ->
             IF ctx = <<>> THEN {[kind |-> "return", text |-> LLMChatNoInfo]}
             ELSE {[kind |-> o.response.kind, text |-> o.response.text] :
                      o \in generate_response_outcomes(self, q, ctx, outcome)}
      [] OTHER -> {[kind |-> "return", text |-> placeholder_generate_response(q, ctx)]}

----------------------------------------------------------------------------
(* Inputs of the store and assembler operations *)

MaxBatch == 2
MaxDocsLimit == 3
MaxBudget == 70

T_Jon == <<"J","o","n">>
T_Arya == <<"A","r","y","a">>
T_Theon == <<"T","h","e","o","n"," ","G","r","e","y","j","o","y">>
Titles == {T_Jon, T_Arya, T_Theon}

C_JonSnow == <<"J","o","n"," ","S","n","o","w">>
C_Ned == <<"N","e","d">>
Contents == {C_JonSnow, C_Ned}

Q_Jon == <<"j","o","n">>
Queries == {Q_Jon}

\* the wiki pages there are to import: a title and the text scraped for it
\* (the page Jon was scraped twice, with different text)
Pages == {[title |-> T_Jon, content |-> C_JonSnow],
          [title |-> T_Jon, content |-> C_Ned],
          [title |-> T_Arya, content |-> C_Ned],
          [title |-> T_Theon, content |-> C_JonSnow]}

\* the .txt files a directory can hold, after the split at the first blank line
DirFiles == {[filename |-> FileNameOf(p.title), title |-> p.title, content |-> p.content] :
                 p \in Pages}
\* the lines a JSONL file can hold: the documents append_to_mongodb_import
\* writes, and an object without "title"
JsonLines == {Doc(p.title, p.content, FileNameOf(p.title)) : p \in Pages}
                 \cup {Doc(Absent, c, Absent) : c \in Contents}

SeqsUpTo(S, n) == UNION {[1..k -> S] : k \in 1..n}

IdleCall == [query |-> <<>>, max_chars |-> 0, hits |-> <<>>,
             context_parts |-> <<>>, context |-> <<>>]

\* no call of the assembler is in progress
NoCall == impl = "none"

\* the assembler's locals and result are gone once it has returned
CallReturned ==
    /\ impl' = "none"
    /\ query' = IdleCall.query
    /\ max_chars' = IdleCall.max_chars
    /\ hits' = IdleCall.hits
    /\ context_parts' = IdleCall.context_parts
    /\ context' = IdleCall.context

----------------------------------------------------------------------------
(* Operations on the store *)

\* GOTMongoConnection.import_from_directory
import_from_directory(files) ==
    /\ NoCall
    /\ LET db == import_directory_loop([coll |-> store, last |-> last_write], files)
       IN  store' = db.coll /\ last_write' = db.last
    /\ CallReturned
    /\ UNCHANGED notStoreVars

\* GOTMongoConnection.import_from_jsonl
import_from_jsonl(lines) ==
    /\ NoCall
    /\ LET db == import_jsonl_loop([coll |-> store, last |-> last_write], lines)
       IN  store' = db.coll /\ last_write' = db.last
    /\ CallReturned
    /\ UNCHANGED notStoreVars

\* save_to_mongodb of the scraper
save_to_mongodb(title, text) ==
    /\ NoCall
    /\ store' = update_one_upsert(store, Doc(title, text, FileNameOf(title)))
    /\ last_write' = update_result(store, Doc(title, text, FileNameOf(title)))
    /\ CallReturned
    /\ UNCHANGED notStoreVars

\* GOTMongoConnection.create_context, on the text-search path
create_context(q, max_docs, limit_chars) ==
    /\ NoCall
    /\ \E results \in RankedHits(store, max_docs) :
        LET parts == create_context_loop(results, q, limit_chars, <<>>, 0)
        IN  /\ impl' = "create_context"
            /\ query' = q
            /\ max_chars' = limit_chars
            /\ hits' = results
            /\ context_parts' = parts
            /\ context' = Join(parts, ParagraphBreak)
            /\ UNCHANGED <<store, last_write>>
            /\ UNCHANGED notStoreVars

\* GOTChatbotDB.create_chatbot_context
create_chatbot_context(q, max_documents, limit_chars) ==
    /\ NoCall
    /\ \E results \in RankedHits(store, max_documents) :
        LET parts == create_chatbot_context_loop(results, q, limit_chars, <<>>, 0)
        IN  /\ impl' = "create_chatbot_context"
            /\ query' = q
            /\ max_chars' = limit_chars
            /\ hits' = results
            /\ context_parts' = parts
            /\ context' = Join(parts, ParagraphBreak)
            /\ UNCHANGED <<store, last_write>>
            /\ UNCHANGED notStoreVars

\* the caller has taken the context: the call is over
context_returned ==
    /\ ~NoCall
    /\ CallReturned
    /\ UNCHANGED <<store, last_write>>
    /\ UNCHANGED notStoreVars

ExcerptIdle ==
    /\ content = <<>>
    /\ search_term = <<>>
    /\ context_chars = 0
    /\ excerpt = <<>>
    /\ ex_pc = "idle"

StoreIdle ==
    /\ store = <<>>
    /\ last_write = "none"
    /\ impl = "none"
    /\ query = IdleCall.query
    /\ max_chars = IdleCall.max_chars
    /\ hits = IdleCall.hits
    /\ context_parts = IdleCall.context_parts
    /\ context = IdleCall.context

FilterIdle ==
    /\ f_response = <<>>
    /\ f_context = <<>>
    /\ f_suspects = {}
    /\ f_output = [text |-> <<>>, flagged |-> {}, returned |-> <<>>]
    /\ f_pc = "idle"

\* no LLMIntegration and no GOTChatbot has been constructed
ConfigIdle ==
    /\ llm_provider = None
    /\ api_key = None
    /\ client = "unset"
    /\ locations = <<>>

GenIdle ==
    /\ gen = "none"
    /\ gen_query = <<>>
    /\ gen_context = <<>>
    /\ remote = "not_called"
    /\ branch = "none"
    /\ answer = NoResponse

\* no chatbot has been constructed and no question is being processed
ChatIdle ==
    /\ chatbot = "none"
    /\ embeddings = None
    /\ conversation_history = <<>>
    /\ pq = NoQuestion

NoImport ==
    [pc |-> "idle", kind |-> "none", batch |-> <<>>, pending |-> <<>>, before |-> <<>>]
NoSnapshot == [taken |-> FALSE, import |-> NoImport, hits |-> <<>>]

\* no import and no search is running in another process
ImportIdle ==
    /\ import_call = NoImport
    /\ snapshot = NoSnapshot

\* no web process is running
WebIdle ==
    /\ app_chatbot = 0
    /\ instances = <<>>
    /\ requests = <<>>

\* no run of the scraper: metadata is what metadata.json lists
NoRun ==
    [pc |-> "idle", program |-> "none", no_limit |-> FALSE, max_pages |-> 0,
     important_only |-> FALSE, start |-> {}, metadata |-> {}, fetched |-> <<>>,
     successful_important |-> <<>>, successful_general |-> <<>>]
\* no listing of the wiki's pages is running
NoPager ==
    [pc |-> "idle", no_limit |-> TRUE, limit |-> 0, continuation |-> None,
     page_count |-> 0, all_titles |-> <<>>, calls |-> 0,
     resp |-> [allpages |-> FALSE, batch |-> <<>>, apcontinue |-> None]]
\* no text is being deduplicated
NoDedup == [pc |-> "idle", text |-> <<>>, once |-> <<>>, twice |-> <<>>]
\* no document is being split
NoChunker ==
    [pc |-> "idle", content |-> <<>>, chunk_size |-> 0, overlap |-> 0,
     current_pos |-> 0, chunk_id |-> 0, chunks |-> <<>>]

\* no scraper and no exporter is running
ToolsIdle ==
    /\ scraper = NoRun
    /\ pager = NoPager
    /\ dedup = NoDedup
    /\ chunker = NoChunker

Init ==
    /\ StoreIdle /\ ExcerptIdle /\ FilterIdle /\ ConfigIdle /\ GenIdle /\ ChatIdle
    /\ ImportIdle /\ WebIdle /\ ToolsIdle

Next ==
    \/ \E files \in SeqsUpTo(DirFiles, MaxBatch) : import_from_directory(files)
    \/ \E lines \in SeqsUpTo(JsonLines, MaxBatch) : import_from_jsonl(lines)
    \/ \E p \in Pages : save_to_mongodb(p.title, p.content)
    \/ \E q \in Queries, m \in 0..MaxBudget : create_context(q, MaxDocsLimit, m)
    \/ \E q \in Queries, m \in 0..MaxBudget : create_chatbot_context(q, MaxDocsLimit, m)
    \/ context_returned

Spec == Init /\ [][Next]_vars

----------------------------------------------------------------------------
(* The excerpt extractors applied to arbitrary short documents *)

MaxContentLen == 4
MaxContextChars == 2

LongParagraphLen == 600

\* a paragraph of n characters
Filler(n) == [i \in 1..n |-> "x"]

\* pages whose only blank line is a long paragraph away from the word sought
LongContents ==
    {<<"b", "\n", "\n">> \o Filler(LongParagraphLen) \o <<"a">>,
     <<"a">> \o Filler(LongParagraphLen) \o <<"\n", "\n", "b">>}

ExAlphabet == {"a", "A", "b", "\n"}
ExContents == UNION {[1..n -> ExAlphabet] : n \in 0..MaxContentLen} \cup LongContents
ExTerms == {<<>>, <<"a">>, <<"A">>, <<"b">>, <<"a","b">>, <<"a","\n">>,
            <<"\n","b">>, <<"a","\n","\n","b">>}
ExContextChars == (0..MaxContextChars) \cup {DefaultContextChars}

InitExcerpt ==
    /\ StoreIdle
    /\ FilterIdle
    /\ ConfigIdle
    /\ GenIdle
    /\ ChatIdle
    /\ ImportIdle
    /\ WebIdle
    /\ ToolsIdle
    /\ content \in ExContents
    /\ search_term \in ExTerms
    /\ context_chars \in ExContextChars
    /\ excerpt = <<>>
    /\ ex_pc = "idle"

\* a call of GOTMongoConnection.get_excerpt
call_get_excerpt ==
    /\ ex_pc = "idle"
    /\ excerpt' = get_excerpt(content, search_term, context_chars)
    /\ ex_pc' = "get_excerpt"
    /\ UNCHANGED <<content, search_term, context_chars>>
    /\ UNCHANGED notExcerptVars

\* a call of GOTChatbotDB.get_content_excerpt
call_get_content_excerpt ==
    /\ ex_pc = "idle"
    /\ excerpt' = get_content_excerpt(content, search_term, context_chars)
    /\ ex_pc' = "get_content_excerpt"
    /\ UNCHANGED <<content, search_term, context_chars>>
    /\ UNCHANGED notExcerptVars

NextExcerpt == call_get_excerpt \/ call_get_content_excerpt

SpecExcerpt == InitExcerpt /\ [][NextExcerpt]_vars

----------------------------------------------------------------------------
(* The hallucination filter applied to generated answers *)

MaxAnswerWords == 3

ExampleContext ==
    <<"-", "-", "-", " ", "J", "o", "n", " ", "S", "n", "o", "w", " ", "-", "-", "-", " ", "J",
      "o", "n", " ", "S", "n", "o", "w", " ", "i", "s", " ", "t", "h", "e", " ", "s", "o", "n",
      " ", "o", "f", " ", "L", "y", "a", "n", "n", "a", " ", "S", "t", "a", "r", "k", ".">>
ExampleAnswer ==
    <<"J", "o", "n", " ", "S", "n", "o", "w", " ", "i", "s", " ", "s", "e", "c", "r", "e", "t",
      "l", "y", " ", "m", "a", "r", "r", "i", "e", "d", " ", "t", "o", " ", "D", "a", "e", "n",
      "e", "r", "y", "s", " ", "a", "n", "d", " ", "r", "u", "l", "e", "d", " ", "D", "o", "r",
      "n", "e", ".">>

AnswerWords ==
    {<<"J","o","n">>, <<"S","n","o","w">>, <<"D","o","r","n","e",".">>,
     <<"r","u","l","e","d">>, <<"d","o","n","'","t"," ","k","n","o","w">>}

\* the words of ws with single spaces between them
RECURSIVE Sentence(_)
Sentence(ws) ==
    IF ws = <<>> THEN <<>>
    ELSE IF Len(ws) = 1 THEN ws[1]
    ELSE ws[1] \o <<" ">> \o Sentence(Tail(ws))

FilterAnswers ==
    {ExampleAnswer, <<>>} \cup {Sentence(ws) : ws \in SeqsUpTo(AnswerWords, MaxAnswerWords)}
FilterContexts ==
    {ExampleContext, <<>>,
     <<"J","o","n"," ","S","n","o","w"," ","r","u","l","e","d">>,
     <<"I"," ","d","o","n","'","t"," ","k","n","o","w">>}

InitFilter ==
    /\ StoreIdle
    /\ ExcerptIdle
    /\ ConfigIdle
    /\ GenIdle
    /\ ChatIdle
    /\ ImportIdle
    /\ WebIdle
    /\ ToolsIdle
    /\ f_response \in FilterAnswers
    /\ f_context \in FilterContexts
    /\ f_suspects = {}
    /\ f_output = [text |-> <<>>, flagged |-> {}, returned |-> <<>>]
    /\ f_pc = "idle"

\* a call of LLMIntegration._filter_hallucinations
call_filter_hallucinations ==
    /\ f_pc = "idle"
    /\ f_suspects' = IF f_response = <<>> THEN {}
                     ELSE filtered_hallucinations(f_response, f_context)
    /\ f_output' \in filter_hallucinations(f_response, f_context)
    /\ f_pc' = "done"
    /\ UNCHANGED <<f_response, f_context>>
    /\ UNCHANGED notFilterVars

NextFilter == call_filter_hallucinations

SpecFilter == InitFilter /\ [][NextFilter]_vars

----------------------------------------------------------------------------
(* Answer generation: LLMIntegration.generate_response and the rule-based
   GOTChatbot.generate_response *)

MaxQueryWords == 2
FillerLen == 120

ExampleQuery ==
    <<"W", "h", "o", " ", "i", "s", " ", "t", "h", "e", " ", "f", "a", "t", "h", "e", "r", " ",
      "o", "f", " ", "J", "o", "n", " ", "S", "n", "o", "w", " ", "a", "n", "d", " ", "w", "h",
      "y", " ", "d", "i", "d", " ", "h", "e", " ", "h", "i", "d", "e", " ", "i", "t", "?">>
Q_WhatJon ==
    <<"W", "h", "a", "t", " ", "d", "i", "d", " ", "J", "o", "n", " ", "s", "e", "e", " ", "a",
      "t", " ", "W", "i", "n", "t", "e", "r", "f", "e", "l", "l", "?">>
Ctx_Jon ==
    <<"-", "-", "-", " ", "J", "o", "n", " ", "S", "n", "o", "w", " ", "-", "-", "-", "\n",
      "N", "e", "d", " ", "h", "i", "d", " ", "J", "o", "n", " ", "a", "t", " ", "W", "i", "n",
      "t", "e", "r", "f", "e", "l", "l", " ", "b", "e", "c", "a", "u", "s", "e", " ", "o", "f",
      " ", "R", "o", "b", "e", "r", "t", ".", " ", "J", "o", "n", " ", "l", "e", "f", "t", " ",
      "a", "f", "t", "e", "r", " ", "t", "h", "e", " ", "w", "a", "r", ".">>
Ctx_Arya ==
    <<"A", "r", "y", "a", " ", "f", "l", "e", "d", ".">>
Ctx_Two ==
    <<"-", "-", "-", " ", "D", "o", "r", "n", "e", " ", "-", "-", "-", "\n", "S", "u", "n",
      "s", "p", "e", "a", "r", ".", "\n", "\n", "-", "-", "-", " ", "A", "r", "y", "a", " ",
      "-", "-", "-", "\n", "S", "h", "e", " ", "s", "a", "i", "l", "e", "d", " ", "w", "h",
      "e", "n", " ", "y", "o", "u", "n", "g">>
A_Dorne ==
    <<"J", "o", "n", " ", "r", "u", "l", "e", "d", " ", "D", "o", "r", "n", "e", ".">>
A_Jon ==
    <<"J", "o", "n", " ", "S", "n", "o", "w">>
E_timeout ==
    <<"R", "e", "q", "u", "e", "s", "t", " ", "t", "i", "m", "e", "d", " ", "o", "u", "t">>

Ctx_Long == <<"N","e","d">> \o ParagraphBreak \o Filler(FillerLen)

QueryWords ==
    {<<"W","h","o">>, <<"w","h","a","t"," ","i","s">>, <<"W","h","e","r","e">>,
     <<"w","h","e","n">>, <<"W","H","Y">>, <<"s","h","o","w">>}

GenQueries ==
    {ExampleQuery, Q_WhatJon, <<>>}
        \cup {Sentence(ws) : ws \in SeqsUpTo(QueryWords, MaxQueryWords)}
Ctx_War ==
    <<"O", "n", "e", " ", "y", "e", "a", "r", " ", "o", "f", " ", "w", "a", "r", ".", " ", "J",
      "o", "n", " ", "l", "e", "f", "t", " ", "a", "f", "t", "e", "r", " ", "i", "t", " ", "f",
      "o", "r", " ", "a", " ", "r", "e", "a", "s", "o", "n", ".", " ", "H", "e", " ", "h", "i",
      "d", " ", "b", "e", "c", "a", "u", "s", "e", " ", "o", "f", " ", "R", "o", "b", "e", "r",
      "t", ".">>
\* five letters that grow by one character each in lower case, then a
\* sentence with an indicator and a second sentence
Ctx_Dotted ==
    <<DottedCapitalI, DottedCapitalI, DottedCapitalI, DottedCapitalI, DottedCapitalI>>
        \o <<" ", "w", "h", "e", "n", ".", " ", "J", "o", "n", ".">>

GenContexts == {<<>>, Ctx_Jon, Ctx_Arya, Ctx_Two, Ctx_Long, Ctx_War, Ctx_Dotted}

RemoteOutcomes ==
    {[ok |-> TRUE, text |-> a] : a \in {A_Dorne, A_Jon, <<>>}}
        \cup {[ok |-> FALSE, text |-> E_timeout]}

ConfigFiles ==
    {NoFile}
        \cup {[provider |-> p, api_key |-> k] : p \in Providers, k \in {Placeholder, "sk-key"}}
Environments ==
    {[provider |-> "", api_key |-> None]}
        \cup {[provider |-> p, api_key |-> k] :
                 p \in Providers \cup {"cohere"}, k \in {None, "sk-key"}}
Libraries == {"installed", "missing"}

\* GOTChatbot.locations after _load_entity_lists: the known locations that are
\* titles in the store, in the order the store yields them
LocationLists ==
    {<<>>, <<known_locations[11], known_locations[1]>>, known_locations}

\* a constructed LLMIntegration, or a constructed GOTChatbot
InitGen ==
    /\ StoreIdle
    /\ ExcerptIdle
    /\ FilterIdle
    /\ GenIdle
    /\ ChatIdle
    /\ ImportIdle
    /\ WebIdle
    /\ ToolsIdle
    /\ \/ /\ \E file \in ConfigFiles, env \in Environments, library \in Libraries :
                LET self == LLMIntegration_init(file, env, library)
                IN  /\ llm_provider = self.llm_provider
                    /\ api_key = self.api_key
                    /\ client = self.client
          /\ locations = <<>>
       \/ /\ llm_provider = None
          /\ api_key = None
          /\ client = "unset"
          /\ locations \in LocationLists

\* LLMIntegration.generate_response
generate_response(q, ctx, outcome) ==
    /\ gen = "none"
    /\ \E o \in generate_response_outcomes(
                    [llm_provider |-> llm_provider, api_key |-> api_key, client |-> client],
                    q, ctx, outcome) :
           /\ remote' = o.remote
           /\ branch' = o.branch
           /\ answer' = o.response
    /\ gen' = "LLMIntegration"
    /\ gen_query' = q
    /\ gen_context' = ctx
    /\ UNCHANGED configVars
    /\ UNCHANGED notGenVars

\* GOTChatbot.generate_response
GOTChatbot_generate_response(q, ctx) ==
    /\ gen = "none"
    /\ \E r \in rule_based_responses(locations, q, ctx) :
           /\ branch' = r.branch
           /\ answer' = [kind |-> "return", text |-> r.text, flagged |-> {},
                         note |-> "none"]
    /\ remote' = "not_called"
    /\ gen' = "GOTChatbot"
    /\ gen_query' = q
    /\ gen_context' = ctx
    /\ UNCHANGED configVars
    /\ UNCHANGED notGenVars

\* the caller has taken the answer
generate_returned ==
    /\ gen # "none"
    /\ gen' = "none"
    /\ gen_query' = <<>>
    /\ gen_context' = <<>>
    /\ remote' = "not_called"
    /\ branch' = "none"
    /\ answer' = NoResponse
    /\ UNCHANGED configVars
    /\ UNCHANGED notGenVars

NextGen ==
    \/ \E q \in GenQueries, ctx \in GenContexts, outcome \in RemoteOutcomes :
           generate_response(q, ctx, outcome)
    \/ \E q \in GenQueries, ctx \in GenContexts : GOTChatbot_generate_response(q, ctx)
    \/ generate_returned

SpecGen == InitGen /\ [][NextGen]_vars

----------------------------------------------------------------------------
(* The chatbots answering questions over a backend that can fail *)

MaxTurns == 1

Q_Who == <<"W","h","o"," ","i","s"," ","J","o","n","?">>
Questions == {Q_Jon, Q_Who, <<" ">>}

\* the collection a chatbot is started on: loaded by the imports, one
\* document per title
ChatStores ==
    {<<>>,
     <<Doc(T_Jon, C_JonSnow, FileNameOf(T_Jon))>>,
     <<Doc(T_Jon, C_JonSnow, FileNameOf(T_Jon)), Doc(T_Arya, C_Ned, Absent)>>}

\* a constructed chatbot: GOTChatbot of got_chatbot.py, GOTChatbotLLM of
\* chatbot_llm.py with its LLMIntegration, or the placeholder GOTChatbot of
\* chatbot.py over GOTChatbotDB, which has no embeddings
ChatbotConstructed(stores) ==
    /\ store \in stores
    /\ last_write = "none"
    /\ impl = "none"
    /\ query = IdleCall.query
    /\ max_chars = IdleCall.max_chars
    /\ hits = IdleCall.hits
    /\ context_parts = IdleCall.context_parts
    /\ context = IdleCall.context
    /\ ExcerptIdle
    /\ FilterIdle
    /\ GenIdle
    /\ conversation_history = <<>>
    /\ pq = NoQuestion
    /\ ImportIdle
    /\ WebIdle
    /\ ToolsIdle
    /\ \/ /\ chatbot = "GOTChatbot"
          /\ embeddings \in {None, "model"}
          /\ llm_provider = None
          /\ api_key = None
          /\ client = "unset"
          /\ locations \in LocationLists
       \/ /\ chatbot = "GOTChatbotLLM"
          /\ embeddings \in {None, "model"}
          /\ \E file \in ConfigFiles, env \in Environments, library \in Libraries :
                LET self == LLMIntegration_init(file, env, library)
                IN  /\ llm_provider = self.llm_provider
                    /\ api_key = self.api_key
                    /\ client = self.client
          /\ locations = <<>>
       \/ /\ chatbot = "Placeholder"
          /\ embeddings = None
          /\ ConfigIdle

InitChat == ChatbotConstructed(ChatStores)

\* get_context_for_query of the chatbot
get_context_for_query(bot, emb, coll, q, env) ==
    IF bot = "Placeholder"
    THEN create_chatbot_context_outcomes(coll, q, ChatMaxDocs, ChatMaxContextChars, env)
    ELSE create_context_outcomes(emb, coll, q, ChatMaxDocs, ChatMaxContextChars, env)

\* process_question: the context, the response, the turn appended to the
\* history unless an exception ended the call
process_question(bot, q, env, outcome) ==
    /\ chatbot = bot
    /\ pq.kind = "none"
    /\ \E c \in get_context_for_query(bot, embeddings, store, q, env) :
          IF c.raised
          THEN /\ pq' = Question(q, env, c, "raise", <<>>)
               /\ UNCHANGED conversation_history
          ELSE \E r \in chatbot_responses(bot,
                            [llm_provider |-> llm_provider, api_key |-> api_key,
                             client |-> client],
                            locations, q, c.context, outcome) :
                  /\ pq' = Question(q, env, c, r.kind, r.text)
                  /\ conversation_history' =
                        IF r.kind = "raise" THEN conversation_history
                        ELSE Append(conversation_history,
                                    [question |-> q, response |-> r.text,
                                     context_used |-> context_used(c.context)])
    /\ UNCHANGED <<chatbot, embeddings>>
    /\ UNCHANGED configVars
    /\ UNCHANGED notChatVars

GOTChatbot_process_question(q, env) ==
    process_question("GOTChatbot", q, env, [ok |-> TRUE, text |-> <<>>])

GOTChatbotLLM_process_question(q, env, outcome) ==
    process_question("GOTChatbotLLM", q, env, outcome)

Placeholder_process_question(q, env) ==
    process_question("Placeholder", q, env, [ok |-> TRUE, text |-> <<>>])

\* the caller has taken the response, or the exception
question_returned ==
    /\ pq.kind # "none"
    /\ pq' = NoQuestion
    /\ UNCHANGED <<chatbot, embeddings, conversation_history>>
    /\ UNCHANGED configVars
    /\ UNCHANGED notChatVars

NextChat ==
    \/ /\ Len(conversation_history) < MaxTurns
       /\ \E q \in Questions, env \in BackendEnvs : GOTChatbot_process_question(q, env)
    \/ /\ Len(conversation_history) < MaxTurns
       /\ \E q \in Questions, env \in BackendEnvs, outcome \in RemoteOutcomes :
              GOTChatbotLLM_process_question(q, env, outcome)
    \/ /\ Len(conversation_history) < MaxTurns
       /\ \E q \in Questions, env \in BackendEnvs : Placeholder_process_question(q, env)
    \/ question_returned

SpecChat == InitChat /\ [][NextChat]_vars

----------------------------------------------------------------------------
(* A conversation of several questions with one chatbot *)

MaxHistory == 2

\* the store of the conversation: empty, or one page longer than the preview
\* the history keeps of a context
HistoryStores ==
    {<<>>, <<Doc(T_Jon, C_JonSnow \o Filler(FillerLen), FileNameOf(T_Jon))>>}

\* the backend works, or its lexical search fails
HistoryEnvs ==
    {[count |-> "empty", embed |-> "ok", vquery |-> "ok", text |-> t] : t \in {"ok", "raise"}}

InitHistory == ChatbotConstructed(HistoryStores) /\ embeddings = None

NextHistory ==
    \/ /\ Len(conversation_history) < MaxHistory
       /\ \E q \in Questions, env \in HistoryEnvs : GOTChatbot_process_question(q, env)
    \/ /\ Len(conversation_history) < MaxHistory
       /\ \E q \in Questions, env \in HistoryEnvs, outcome \in RemoteOutcomes :
              GOTChatbotLLM_process_question(q, env, outcome)
    \/ /\ Len(conversation_history) < MaxHistory
       /\ \E q \in Questions, env \in HistoryEnvs : Placeholder_process_question(q, env)
    \/ question_returned

SpecHistory == InitHistory /\ [][NextHistory]_vars

----------------------------------------------------------------------------
(* An import running in one process while another process searches *)

\* the JSONL lines of this import: documents of the scraper, a document
\* whose object has no "filename", and an object without "title"
ImportLines ==
    {Doc(t, c, FileNameOf(t)) : t \in {T_Jon, T_Arya}, c \in Contents}
        \cup {Doc(T_Arya, C_Ned, Absent), Doc(Absent, C_Ned, Absent)}
ImportFiles == {f \in DirFiles : f.title \in {T_Jon, T_Arya}}

\* import_from_directory is called: os.listdir has given the files
start_import_from_directory(files) ==
    /\ import_call.pc = "idle"
    /\ ~snapshot.taken
    /\ import_call' = [pc |-> "running", kind |-> "directory", batch |-> files,
                       pending |-> files, before |-> store]
    /\ UNCHANGED <<snapshot, storeVars>>
    /\ UNCHANGED notImportVars

\* import_from_jsonl is called: the file is open
start_import_from_jsonl(lines) ==
    /\ import_call.pc = "idle"
    /\ ~snapshot.taken
    /\ import_call' = [pc |-> "running", kind |-> "jsonl", batch |-> lines,
                       pending |-> lines, before |-> store]
    /\ UNCHANGED <<snapshot, storeVars>>
    /\ UNCHANGED notImportVars

\* one iteration of the import's for loop: one file or line, one update_one
import_next_document ==
    /\ import_call.pc = "running"
    /\ import_call.pending # <<>>
    /\ ~snapshot.taken
    /\ LET one == <<Head(import_call.pending)>>
           db == IF import_call.kind = "directory"
                 THEN import_directory_loop([coll |-> store, last |-> last_write], one)
                 ELSE import_jsonl_loop([coll |-> store, last |-> last_write], one)
       IN  store' = db.coll /\ last_write' = db.last
    /\ import_call' = [import_call EXCEPT !.pending = Tail(@)]
    /\ UNCHANGED <<snapshot, impl, query, max_chars, hits, context_parts, context>>
    /\ UNCHANGED notImportVars

\* the loop is over and the import returns its count
import_returned ==
    /\ import_call.pc = "running"
    /\ import_call.pending = <<>>
    /\ ~snapshot.taken
    /\ import_call' = NoImport
    /\ UNCHANGED <<snapshot, storeVars>>
    /\ UNCHANGED notImportVars

\* GOTMongoConnection.search called from create_context in another process:
\* one find on the collection as it is
concurrent_search(limit) ==
    /\ ~snapshot.taken
    /\ \E results \in RankedHits(store, limit) :
           snapshot' = [taken |-> TRUE, import |-> import_call, hits |-> results]
    /\ UNCHANGED <<import_call, storeVars>>
    /\ UNCHANGED notImportVars

\* the searching process is done with its hits: the record of the find goes
search_returned ==
    /\ snapshot.taken
    /\ snapshot' = NoSnapshot
    /\ UNCHANGED <<import_call, storeVars>>
    /\ UNCHANGED notImportVars

NextImport ==
    \/ \E files \in SeqsUpTo(ImportFiles, MaxBatch) : start_import_from_directory(files)
    \/ \E lines \in SeqsUpTo(ImportLines, MaxBatch) : start_import_from_jsonl(lines)
    \/ import_next_document
    \/ import_returned
    \/ concurrent_search(MaxDocsLimit)
    \/ search_returned

SpecImport == Init /\ [][NextImport]_vars

----------------------------------------------------------------------------
(* The web application: each request is served by a thread of its own *)

MaxRequests == 2
Requests == 1..MaxRequests

\* what request.get_json() gives for the body a client posts: None for the
\* JSON null, or an object without "question", with an empty question or with
\* a question
NoBody == [kind |-> "none", question |-> Absent]
Bodies ==
    {[kind |-> "null", question |-> Absent], [kind |-> "object", question |-> Absent],
     [kind |-> "object", question |-> <<>>], [kind |-> "object", question |-> Q_Who]}

\* a request that has not arrived; called: process_question was called for
\* it, imported: it wrote documents to the store, used: the instance it read
\* through the global chatbot
NoRequest ==
    [pc |-> "idle", endpoint |-> "none", body |-> NoBody, status |-> 0,
     called |-> FALSE, imported |-> FALSE, used |-> 0]

WebStores == {<<>>, <<Doc(T_Jon, C_JonSnow, FileNameOf(T_Jon))>>}

\* the .txt files _check_local_files finds in assets/data
LocalFiles == <<[filename |-> FileNameOf(T_Arya), title |-> T_Arya, content |-> C_Ned]>>

\* the module is imported by a server (chatbot is None), or run as a script,
\* which constructs the chatbot before it serves
InitWeb ==
    /\ store \in WebStores
    /\ last_write = "none"
    /\ impl = "none"
    /\ query = IdleCall.query
    /\ max_chars = IdleCall.max_chars
    /\ hits = IdleCall.hits
    /\ context_parts = IdleCall.context_parts
    /\ context = IdleCall.context
    /\ ExcerptIdle
    /\ FilterIdle
    /\ GenIdle
    /\ ChatIdle
    /\ ImportIdle
    /\ ToolsIdle
    /\ \E file \in {NoFile, [provider |-> "openai", api_key |-> "sk-key"]} :
           LET self == LLMIntegration_init(file, [provider |-> "", api_key |-> None],
                                           "installed")
           IN  /\ llm_provider = self.llm_provider
               /\ api_key = self.api_key
               /\ client = self.client
    /\ locations = <<>>
    /\ \/ app_chatbot = 0 /\ instances = <<>>
       \/ app_chatbot = 1 /\ instances = << <<>> >>
    /\ requests = [r \in Requests |-> NoRequest]

\* what process_question of a chatbot does with question q: it raises, or it
\* returns after appending turn
process_question_outcomes(bot, emb, coll, self, location_list, q, env, outcome) ==
    UNION {IF c.raised
           THEN {[kind |-> "raise", turn |-> <<>>]}
           ELSE {[kind |-> r.kind,
                  turn |-> [question |-> q, response |-> r.text,
                            context_used |-> context_used(c.context)]] :
                    r \in chatbot_responses(bot, self, location_list, q, c.context, outcome)} :
             c \in get_context_for_query(bot, emb, coll, q, env)}

\* a request arrives and its thread enters the handler
request_received(r, endpoint, body) ==
    /\ requests[r].pc = "idle"
    /\ requests' = [requests EXCEPT ![r] = [NoRequest EXCEPT !.pc = "check",
                                                             !.endpoint = endpoint,
                                                             !.body = body]]
    /\ UNCHANGED <<store, app_chatbot, instances>>
    /\ UNCHANGED notWebVars

\* if chatbot is None
lazy_check(r) ==
    /\ requests[r].pc = "check"
    /\ requests' = [requests EXCEPT ![r].pc = IF app_chatbot = 0 THEN "construct"
                                              ELSE "handle"]
    /\ UNCHANGED <<store, app_chatbot, instances>>
    /\ UNCHANGED notWebVars

\* chatbot = GOTChatbotLLM(): the constructor raises (no database connection),
\* or it returns; on an empty database with local files it asks on the
\* console whether to import them, and imports them on "y"
lazy_construct(r, outcome) ==
    /\ requests[r].pc = "construct"
    /\ outcome = "import" => store = <<>>
    /\ IF outcome = "raise"
       THEN /\ requests' = [requests EXCEPT ![r].pc = "done", ![r].status = 500]
            /\ UNCHANGED <<store, app_chatbot, instances>>
       ELSE /\ instances' = Append(instances, <<>>)
            /\ app_chatbot' = Len(instances) + 1
            /\ store' = IF outcome = "import"
                        THEN import_directory_loop([coll |-> store, last |-> "none"],
                                                   LocalFiles).coll
                        ELSE store
            /\ requests' = [requests EXCEPT ![r].pc = "handle",
                                            ![r].imported = (outcome = "import")]
    /\ UNCHANGED notWebVars

\* the rest of chat(): data.get on the parsed body, the check of the question,
\* process_question of the global chatbot
chat(r, env, outcome) ==
    /\ requests[r].pc = "handle"
    /\ requests[r].endpoint = "chat"
    /\ LET body == requests[r].body
       IN  IF body.kind = "null"
           THEN /\ requests' = [requests EXCEPT ![r].pc = "done", ![r].status = 500]
                /\ UNCHANGED instances
           ELSE IF body.question = Absent \/ body.question = <<>>
           THEN /\ requests' = [requests EXCEPT ![r].pc = "done", ![r].status = 400]
                /\ UNCHANGED instances
           ELSE \E o \in process_question_outcomes(
                             "GOTChatbotLLM", embeddings, store,
                             [llm_provider |-> llm_provider, api_key |-> api_key,
                              client |-> client],
                             locations, body.question, env, outcome) :
                   /\ requests' = [requests EXCEPT
                                      ![r].pc = "done",
                                      ![r].status = IF o.kind = "raise" THEN 500 ELSE 200,
                                      ![r].called = TRUE,
                                      ![r].used = app_chatbot]
                   /\ instances' = IF o.kind = "raise" THEN instances
                                   ELSE [instances EXCEPT ![app_chatbot] = Append(@, o.turn)]
    /\ UNCHANGED <<store, app_chatbot>>
    /\ UNCHANGED notWebVars

\* the rest of info(): the statistics read through the global chatbot, or the
\* handler of the exception count_documents raises
info(r, status) ==
    /\ requests[r].pc = "handle"
    /\ requests[r].endpoint = "info"
    /\ requests' = [requests EXCEPT ![r].pc = "done", ![r].status = status,
                                    ![r].used = app_chatbot]
    /\ UNCHANGED <<store, app_chatbot, instances>>
    /\ UNCHANGED notWebVars

\* the rest of characters()
characters(r) ==
    /\ requests[r].pc = "handle"
    /\ requests[r].endpoint = "characters"
    /\ requests' = [requests EXCEPT ![r].pc = "done", ![r].status = 200,
                                    ![r].used = app_chatbot]
    /\ UNCHANGED <<store, app_chatbot, instances>>
    /\ UNCHANGED notWebVars

NextWeb ==
    \/ \E r \in Requests, body \in Bodies : request_received(r, "chat", body)
    \/ \E r \in Requests, endpoint \in {"info", "characters"} :
           request_received(r, endpoint, NoBody)
    \/ \E r \in Requests : lazy_check(r)
    \/ \E r \in Requests, outcome \in {"ok", "import", "raise"} : lazy_construct(r, outcome)
    \/ \E r \in Requests, env \in HistoryEnvs, outcome \in RemoteOutcomes :
           chat(r, env, outcome)
    \/ \E r \in Requests, status \in {200, 500} : info(r, status)
    \/ \E r \in Requests : characters(r)

SpecWeb == InitWeb /\ [][NextWeb]_vars

----------------------------------------------------------------------------
(* The scraper: main of fandom-scrape-optimized.py, scrape_additional_pages *)
(* of scrape_utils.py                                                       *)

MaxPagesArg == 2

\* the important titles main collects, and what get_all_pages returns
ImportantTitles == <<T_Jon, T_Arya>>
AllTitles == <<T_Arya, T_Theon, T_Jon>>

\* the text of a page with substantial content (more than 100 characters)
PageText == Filler(FillerLen)

ScrapeStores == {<<>>, <<Doc(T_Jon, C_JonSnow, FileNameOf(T_Jon))>>}

\* "if max_pages": a limit that is None or 0 is no limit
limit_given(no_limit, max_pages) == ~no_limit /\ max_pages # 0

\* [t for t in titles if t not in existing_titles]
new_titles(titles, existing) ==
    LET IsNew(t) == t \notin existing
    IN  SelectSeq(titles, IsNew)

\* titles_to_scrape of scrape_with_mongodb_check
titles_to_scrape(titles, existing, no_limit, max_pages) ==
    LET new == new_titles(titles, existing)
    IN  IF limit_given(no_limit, max_pages) /\ max_pages < Len(new)
        THEN Slice(new, 0, max_pages)
        ELSE new

\* the titles whose get_page_content returned substantial content
successful_titles(titles, good) ==
    LET IsGood(t) == t \in good
    IN  SelectSeq(titles, IsGood)

TitleSet(titles) == {titles[i] : i \in 1..Len(titles)}

\* load_existing_mongodb_titles: the titles in the collection, or those of
\* metadata.json when the database cannot be reached
load_existing_mongodb_titles(coll, metadata, mongo_up) ==
    IF mongo_up THEN {coll[i].title : i \in 1..Len(coll)} ELSE metadata

\* save_to_mongodb for each scraped page in turn
RECURSIVE save_pages(_, _)
save_pages(coll, titles) ==
    IF titles = <<>> THEN coll
    ELSE save_pages(update_one_upsert(coll, Doc(Head(titles), PageText,
                                                FileNameOf(Head(titles)))),
                    Tail(titles))

\* a machine with a collection and a metadata.json from earlier runs
InitScrape ==
    /\ store \in ScrapeStores
    /\ last_write = "none"
    /\ impl = "none"
    /\ query = IdleCall.query
    /\ max_chars = IdleCall.max_chars
    /\ hits = IdleCall.hits
    /\ context_parts = IdleCall.context_parts
    /\ context = IdleCall.context
    /\ ExcerptIdle
    /\ FilterIdle
    /\ ConfigIdle
    /\ GenIdle
    /\ ChatIdle
    /\ ImportIdle
    /\ WebIdle
    /\ \E listed \in {{}, {T_Jon}} : scraper = [NoRun EXCEPT !.metadata = listed]
    /\ pager = NoPager
    /\ dedup = NoDedup
    /\ chunker = NoChunker

\* main up to the decision about general pages: the arguments, the first
\* scrape_with_mongodb_check on the important titles; good are the titles
\* whose page has substantial content
main(no_limit, max_pages, important_only, good, mongo_up) ==
    /\ scraper.pc = "idle"
    /\ LET existing == load_existing_mongodb_titles(store, scraper.metadata, mongo_up)
           todo == titles_to_scrape(ImportantTitles, existing, no_limit, max_pages)
           successful_important == successful_titles(todo, good)
           more == /\ ~important_only
                   /\ (no_limit \/ Len(successful_important) < max_pages)
       IN  /\ scraper' = [pc |-> IF more THEN "general" ELSE "done",
                          program |-> "main",
                          no_limit |-> no_limit,
                          max_pages |-> max_pages,
                          important_only |-> important_only,
                          start |-> existing,
                          metadata |-> IF todo = <<>> THEN scraper.metadata
                                       ELSE TitleSet(successful_important),
                          fetched |-> todo,
                          successful_important |-> successful_important,
                          successful_general |-> <<>>]
           /\ store' = IF mongo_up THEN save_pages(store, successful_important) ELSE store
    /\ UNCHANGED <<last_write, impl, query, max_chars, hits, context_parts, context>>
    /\ UNCHANGED <<excerptVars, filterVars, configVars, genVars, chatVars, importVars, webVars>>
    /\ UNCHANGED <<pager, dedup, chunker>>

\* the rest of main: get_all_pages and the second scrape_with_mongodb_check,
\* with the pages that remain of max_pages
main_general(good, mongo_up) ==
    /\ scraper.pc = "general"
    /\ LET remaining_pages == scraper.max_pages - Len(scraper.successful_important)
           existing == load_existing_mongodb_titles(store, scraper.metadata, mongo_up)
           todo == titles_to_scrape(AllTitles, existing, scraper.no_limit, remaining_pages)
           successful_general == successful_titles(todo, good)
       IN  /\ scraper' = [scraper EXCEPT
                             !.pc = "done",
                             !.metadata = IF todo = <<>> THEN @
                                          ELSE TitleSet(successful_general),
                             !.fetched = @ \o todo,
                             !.successful_general = successful_general]
           /\ store' = IF mongo_up THEN save_pages(store, successful_general) ELSE store
    /\ UNCHANGED <<last_write, impl, query, max_chars, hits, context_parts, context>>
    /\ UNCHANGED <<excerptVars, filterVars, configVars, genVars, chatVars, importVars, webVars>>
    /\ UNCHANGED <<pager, dedup, chunker>>

\* scrape_additional_pages of scrape_utils.py, which keeps its titles in
\* metadata.json and does not write to the database
scrape_additional_pages(no_limit, max_pages, good) ==
    /\ scraper.pc = "idle"
    /\ LET existing_titles == scraper.metadata
           new_important_titles == new_titles(ImportantTitles, existing_titles)
           first == IF limit_given(no_limit, max_pages)
                    THEN Slice(new_important_titles, 0, max_pages)
                    ELSE new_important_titles
           successful_first == successful_titles(first, good)
           more == limit_given(no_limit, max_pages) /\ Len(successful_first) < max_pages
           remaining_pages == max_pages - Len(successful_first)
           second == IF more
                     THEN Slice(new_titles(AllTitles,
                                           existing_titles \cup TitleSet(successful_first)),
                                0, remaining_pages)
                     ELSE <<>>
           successful_second == successful_titles(second, good)
       IN  scraper' = [pc |-> "done",
                       program |-> "scrape_additional_pages",
                       no_limit |-> no_limit,
                       max_pages |-> max_pages,
                       important_only |-> FALSE,
                       start |-> existing_titles,
                       metadata |-> existing_titles \cup TitleSet(successful_first)
                                        \cup TitleSet(successful_second),
                       fetched |-> first \o second,
                       successful_important |-> successful_first,
                       successful_general |-> successful_second]
    /\ UNCHANGED <<coreVars, pager, dedup, chunker>>

\* the run has ended; metadata.json stays
run_returned ==
    /\ scraper.pc = "done"
    /\ scraper' = [NoRun EXCEPT !.metadata = scraper.metadata]
    /\ UNCHANGED <<coreVars, pager, dedup, chunker>>

NextScrape ==
    \/ \E no_limit \in BOOLEAN, max_pages \in 0..MaxPagesArg, important_only \in BOOLEAN,
          good \in SUBSET Titles, mongo_up \in BOOLEAN :
           main(no_limit, max_pages, important_only, good, mongo_up)
    \/ \E good \in SUBSET Titles, mongo_up \in BOOLEAN : main_general(good, mongo_up)
    \/ \E no_limit \in BOOLEAN, max_pages \in 0..MaxPagesArg, good \in SUBSET Titles :
           scrape_additional_pages(no_limit, max_pages, good)
    \/ run_returned

SpecScrape == InitScrape /\ [][NextScrape]_vars

----------------------------------------------------------------------------
(* Deduplication of a scraped page's text *)

MaxTextLen == 5
Newline == <<"\n">>
\* the characters of the texts: two letters, a space and a line break
TextChars == {"a", "b", " ", "\n"}
Texts == UNION {[1..n -> TextChars] : n \in 0..MaxTextLen}

\* mutation of deduplicate_loop: seen_lines.add(line), the line with its spacing
RECURSIVE deduplicate_loop_unstripped(_, _, _)
deduplicate_loop_unstripped(lines, seen_lines, unique_lines) ==
    IF lines = <<>> THEN unique_lines
    ELSE LET line == lines[1]
             line_stripped == Strip(line)
         IN  IF line_stripped = <<>> \/ line_stripped \in seen_lines
             THEN deduplicate_loop_unstripped(Tail(lines), seen_lines, unique_lines)
             ELSE deduplicate_loop_unstripped(Tail(lines), seen_lines \cup {line},
                                              Append(unique_lines, line))

\* for line in lines: skip the empty and the seen, keep the line as it is
RECURSIVE deduplicate_loop(_, _, _)
deduplicate_loop(lines, seen_lines, unique_lines) ==
    IF lines = <<>> THEN unique_lines
    ELSE LET line == lines[1]
             line_stripped == Strip(line)
         IN  IF line_stripped = <<>> \/ line_stripped \in seen_lines
             THEN deduplicate_loop(Tail(lines), seen_lines, unique_lines)
             ELSE deduplicate_loop(Tail(lines), seen_lines \cup {line_stripped},
                                   Append(unique_lines, line))

deduplicate_text_unstripped(text) ==
    Join(deduplicate_loop_unstripped(Split(text, Newline), {}, <<>>), Newline)

deduplicate_text(text) ==
    Join(deduplicate_loop(Split(text, Newline), {}, <<>>), Newline)

InitDedup ==
    /\ StoreIdle /\ ExcerptIdle /\ FilterIdle /\ ConfigIdle /\ GenIdle /\ ChatIdle
    /\ ImportIdle /\ WebIdle
    /\ scraper = NoRun /\ pager = NoPager /\ chunker = NoChunker
    /\ \E text \in Texts : dedup = [NoDedup EXCEPT !.pc = "text", !.text = text]

\* full_content = deduplicate_text(full_content)
deduplicate_page ==
    /\ dedup.pc = "text"
    /\ dedup' = [dedup EXCEPT !.pc = "once", !.once = deduplicate_text(dedup.text)]
    /\ UNCHANGED <<coreVars, scraper, pager, chunker>>

\* the deduplicated text is deduplicated again
deduplicate_again ==
    /\ dedup.pc = "once"
    /\ dedup' = [dedup EXCEPT !.pc = "twice", !.twice = deduplicate_text(dedup.once)]
    /\ UNCHANGED <<coreVars, scraper, pager, chunker>>

NextDedup ==
    \/ deduplicate_page
    \/ deduplicate_again

SpecDedup == InitDedup /\ [][NextDedup]_vars

----------------------------------------------------------------------------
(* The exporter's chunking of a document *)

MinChunkable == 100
default_chunk_size == 1000
default_overlap == 200
MaxChunkSize == 5
MaxMarkerPos == 4
MaxChunks == 100

end_markers ==
    << <<".", " ">>, <<"?", " ">>, <<"!", " ">>,
       <<".", "\n">>, <<"?", "\n">>, <<"!", "\n">> >>

\* a text of MinChunkable characters with a sentence end after k of them
MarkedAt(k, marker) == Filler(k) \o marker \o Filler(MinChunkable - k - Len(marker))

\* the documents: one below the shortest length that is split, one without a
\* sentence end, and those with one sentence end near the start
ChunkContents ==
    {Filler(MinChunkable - 1), Filler(MinChunkable)}
        \cup {MarkedAt(k, end_markers[1]) : k \in 0..MaxMarkerPos}
        \cup {MarkedAt(k, end_markers[6]) : k \in 0..MaxMarkerPos}

\* chunk_size > overlap >= 0, and the defaults
ChunkSettings ==
    {<<default_chunk_size, default_overlap>>}
        \cup UNION {{<<cs, ov>> : ov \in 0..(cs - 1)} : cs \in 2..MaxChunkSize}

\* the place a start or an end of a slice stands for in a text of n characters
SliceIndex(i, n) == IF i < 0 THEN Max2(0, n + i) ELSE Min2(i, n)

\* s.rfind(sub, start, end) for any start and end
rfind(s, sub, start, end) ==
    RFind(s, sub, SliceIndex(start, Len(s)), SliceIndex(end, Len(s)))

\* the end of the chunk that starts at current_pos
chunk_end_of(doc_content, current_pos, chunk_size) ==
    LET whole == Min2(current_pos + chunk_size, Len(doc_content))
        found == {k \in 1..Len(end_markers) :
                     rfind(doc_content, end_markers[k], current_pos, whole) > current_pos}
    IN  IF whole < Len(doc_content) /\ found # {}
        THEN rfind(doc_content, end_markers[Min(found)], current_pos, whole) + 1
        ELSE whole

InitChunks ==
    /\ StoreIdle /\ ExcerptIdle /\ FilterIdle /\ ConfigIdle /\ GenIdle /\ ChatIdle
    /\ ImportIdle /\ WebIdle
    /\ scraper = NoRun /\ pager = NoPager /\ dedup = NoDedup
    /\ chunker = NoChunker

\* split_into_chunks([doc], chunk_size, overlap) up to the chunking loop
split_into_chunks(doc_content, chunk_size, overlap) ==
    /\ chunker.pc = "idle"
    /\ chunker' =
           IF Len(doc_content) < MinChunkable
           THEN [NoChunker EXCEPT !.pc = "done", !.content = doc_content,
                                  !.chunk_size = chunk_size, !.overlap = overlap]
           ELSE IF Len(doc_content) <= chunk_size
           THEN [NoChunker EXCEPT !.pc = "done", !.content = doc_content,
                                  !.chunk_size = chunk_size, !.overlap = overlap,
                                  !.chunks = <<doc_content>>]
           ELSE [NoChunker EXCEPT !.pc = "loop", !.content = doc_content,
                                  !.chunk_size = chunk_size, !.overlap = overlap]
    /\ UNCHANGED <<coreVars, scraper, pager, dedup>>

\* one pass of  while current_pos < len(content)
chunk_loop ==
    /\ chunker.pc = "loop"
    /\ chunker.current_pos < Len(chunker.content)
    /\ chunker.chunk_id < MaxChunks
    /\ LET n == Len(chunker.content)
           chunk_end == chunk_end_of(chunker.content, chunker.current_pos,
                                     chunker.chunk_size)
           chunk_content == Strip(Slice(chunker.content,
                                        SliceIndex(chunker.current_pos, n),
                                        SliceIndex(chunk_end, n)))
       IN  chunker' = [chunker EXCEPT
               !.chunks = Append(@, chunk_content),
               !.current_pos = IF chunk_end < n THEN chunk_end - chunker.overlap ELSE n,
               !.chunk_id = @ + 1]
    /\ UNCHANGED <<coreVars, scraper, pager, dedup>>

\* the loop's test fails: return chunks
chunk_loop_exit ==
    /\ chunker.pc = "loop"
    /\ chunker.current_pos >= Len(chunker.content)
    /\ chunker' = [chunker EXCEPT !.pc = "done"]
    /\ UNCHANGED <<coreVars, scraper, pager, dedup>>

NextChunks ==
    \/ \E doc_content \in ChunkContents, setting \in ChunkSettings :
           split_into_chunks(doc_content, setting[1], setting[2])
    \/ chunk_loop
    \/ chunk_loop_exit

SpecChunks == InitChunks /\ [][NextChunks]_vars

----------------------------------------------------------------------------
(* The listing of the wiki's pages *)

MaxLimit == 2
MaxApiCalls == 4

EXCLUDED_CATEGORIES ==
    << <<"F","i","l","e",":">>, <<"T","e","m","p","l","a","t","e",":">>,
       <<"C","a","t","e","g","o","r","y",":">>, <<"S","p","e","c","i","a","l",":">>,
       <<"H","e","l","p",":">>, <<"P","o","r","t","a","l",":">> >>

T_File == <<"F","i","l","e",":","J","o","n">>

\* the answers of the API: with or without the query.allpages section, with
\* or without a continuation token
ApiResponses ==
    {[allpages |-> TRUE, batch |-> b, apcontinue |-> c] :
        b \in {<<>>, <<T_Jon>>, <<T_File, T_Arya>>}, c \in {None, "Arya"}}
    \cup {[allpages |-> FALSE, batch |-> <<>>, apcontinue |-> c] : c \in {None, "Arya"}}

\* title.startswith(prefix)
startswith(title, prefix) == Slice(title, 0, Len(prefix)) = prefix

\* the titles of a batch that start with no excluded prefix
batch_titles(batch) ==
    SelectSeq(batch, LAMBDA title :
        \A k \in 1..Len(EXCLUDED_CATEGORIES) : ~startswith(title, EXCLUDED_CATEGORIES[k]))

InitPages ==
    /\ StoreIdle /\ ExcerptIdle /\ FilterIdle /\ ConfigIdle /\ GenIdle /\ ChatIdle
    /\ ImportIdle /\ WebIdle
    /\ scraper = NoRun /\ dedup = NoDedup /\ chunker = NoChunker
    /\ pager = NoPager

\* get_all_pages(limit) up to the loop
get_all_pages(no_limit, limit) ==
    /\ pager.pc = "idle"
    /\ pager' = [NoPager EXCEPT !.pc = "loop", !.no_limit = no_limit, !.limit = limit]
    /\ UNCHANGED <<coreVars, scraper, dedup, chunker>>

\* one pass of  while True  with the answer resp
pages_loop(resp) ==
    /\ pager.pc = "loop"
    /\ pager.calls < MaxApiCalls
    /\ LET found == batch_titles(resp.batch)
           page_count == pager.page_count + Len(found)
       IN  pager' =
               IF resp.allpages
               THEN IF resp.apcontinue # None /\ (pager.no_limit \/ page_count < pager.limit)
                    THEN [pager EXCEPT !.all_titles = @ \o found,
                                       !.page_count = page_count,
                                       !.continuation = resp.apcontinue,
                                       !.calls = @ + 1, !.resp = resp]
                    ELSE [pager EXCEPT !.all_titles = @ \o found,
                                       !.page_count = page_count,
                                       !.calls = @ + 1, !.resp = resp,
                                       !.pc = "done"]
               ELSE [pager EXCEPT !.calls = @ + 1, !.resp = resp]
    /\ UNCHANGED <<coreVars, scraper, dedup, chunker>>

\* requests.get or .json() raises: the exception leaves get_all_pages
pages_request_raises ==
    /\ pager.pc = "loop"
    /\ pager.calls < MaxApiCalls
    /\ pager' = [pager EXCEPT !.calls = @ + 1, !.pc = "raised"]
    /\ UNCHANGED <<coreVars, scraper, dedup, chunker>>

NextPages ==
    \/ \E no_limit \in BOOLEAN, limit \in 0..MaxLimit :
           get_all_pages(no_limit, IF no_limit THEN 0 ELSE limit)
    \/ \E resp \in ApiResponses : pages_loop(resp)
    \/ pages_request_raises

SpecPages == InitPages /\ [][NextPages]_vars

----------------------------------------------------------------------------
(* Claims about the store and the context assembler, under Spec *)

InCall == impl # "none"

\* the block the running assembler makes of a hit, and the size it counts
HitBlockOf(doc) ==
    IF impl = "create_context"
    THEN Block(DocGet(doc, "title", Unknown),
               get_excerpt(DocGet(doc, "content", <<>>), query, DefaultContextChars))
    ELSE Block(doc.title,
               get_content_excerpt(DocGet(doc, "content", <<>>), query,
                                   DefaultContextCharsUtils))

HitCostOf(doc) ==
    IF impl = "create_context" THEN block_cost(doc, query)
    ELSE block_cost_utils(doc, query)

HitBlocks == [i \in 1..Len(hits) |-> HitBlockOf(hits[i])]
HitCosts == [i \in 1..Len(hits) |-> HitCostOf(hits[i])]

\* hit i's block is in the context, given the hits' blocks
IncludedIn(blocks, i) == \E k \in 1..Len(context_parts) : context_parts[k] = blocks[i]

\* position of hit i's block in the context
PartIndex(blocks, i) == CHOOSE k \in 1..Len(context_parts) : context_parts[k] = blocks[i]

RECURSIVE SumOver(_, _)
SumOver(costs, S) ==
    IF S = {} THEN 0
    ELSE LET i == CHOOSE x \in S : TRUE IN costs[i] + SumOver(costs, S \ {i})

\* what the hits included above hit i have used of the budget
CountedBefore(blocks, costs, i) ==
    SumOver(costs, {j \in 1..(i - 1) : IncludedIn(blocks, j)})

\* C1 (as claimed): the returned context is never longer than max_chars,
\* counting headers, newlines, excerpts and the blank-line separators.
C1_ContextWithinMaxChars == InCall => Len(context) <= max_chars

UniqueTitles(coll) ==
    \A i, j \in 1..Len(coll) : coll[i].title = coll[j].title => i = j

C9_OneDocumentPerTitle ==
    [][/\ UniqueTitles(store')
       /\ \A p \in Pages :
              (save_to_mongodb(p.title, p.content) /\ TitleMatches(store, p.title) # {})
                  => /\ count_documents(store') = count_documents(store)
                     /\ Cardinality(TitleMatches(store', p.title)) = 1]_vars

\* C9 witness: an upsert found its title stored, in a store of several titles
C9_Witness ==
    /\ last_write = "matched"
    /\ Len(store) >= 2
    /\ \E i \in 1..Len(store) : store[i].title = T_Jon /\ store[i].content = C_Ned

C17_NoHitsEmptyContext ==
    (InCall /\ hits = <<>>) => (context_parts = <<>> /\ context = <<>>)

\* C17 witness: an assembler call on a loaded store whose search matched nothing
C17_Witness ==
    /\ InCall
    /\ hits = <<>>
    /\ store # <<>>
    /\ max_chars > 0
    /\ context = <<>>

----------------------------------------------------------------------------
(* Claims about the excerpt extractors, under SpecExcerpt *)

Extracted == ex_pc # "idle"

\* where the extractor found the term: the first case-insensitive occurrence
MatchPos == Find(Lower(content), Lower(search_term), 0)

C6_ShortContentWhole ==
    (Extracted /\ Len(content) < 2 * context_chars) => excerpt = Strip(content)

\* C6 (amended): content shorter than 2*context_chars that has no blank line
\* comes back whole, trimmed, with no ellipsis marker, when the query occurs
\* in it at a position p <= context_chars with at most context_chars
\* characters after the match; a query that does not occur gets the first 300
\* characters of the content (200 from get_content_excerpt), trimmed and
\* followed by the ellipsis marker.
C6_ShortContentWholeWhenCovered ==
    (Extracted /\ Len(content) < 2 * context_chars /\ ~Contains(content, ParagraphBreak))
        => /\ (/\ MatchPos >= 0
               /\ MatchPos <= context_chars
               /\ Len(content) <= MatchPos + Len(search_term) + context_chars)
                  => excerpt = Strip(content)
           /\ MatchPos < 0
                  => excerpt = Strip(Slice(content, 0,
                                           IF ex_pc = "get_excerpt" THEN FallbackChars
                                           ELSE FallbackCharsUtils)) \o Ellipsis

\* C6 witness: a short document with surrounding whitespace, its query found
C6_Witness ==
    /\ ex_pc = "get_excerpt"
    /\ Len(content) < 2 * context_chars
    /\ context_chars <= MaxContextChars
    /\ ~Contains(content, ParagraphBreak)
    /\ MatchPos > 0
    /\ Len(search_term) > 0
    /\ Strip(content) # content
    /\ excerpt = Strip(content)

\* C16: for non-empty content and any query, the empty and the whitespace
\* query included, the extractor returns a non-empty excerpt
C16_NonEmptyContentNonEmptyExcerpt ==
    (Extracted /\ content # <<>>) => excerpt # <<>>

\* the initial window around the match, before paragraph alignment
InitialStart == Max2(0, MatchPos - context_chars)
InitialEnd == Min2(Len(content), MatchPos + Len(search_term) + context_chars)

\* the range the extractor that ran cut from the content
FinalRange ==
    IF ex_pc = "get_excerpt" THEN get_excerpt_range(content, search_term, context_chars)
    ELSE get_content_excerpt_range(content, search_term, context_chars)

\* the positions of the blank lines of the content
BlankLines == {i \in 0..(Len(content) - 2) : Slice(content, i, i + 2) = ParagraphBreak}

\* the nearest blank line that ends at or before the match, and the nearest
\* that starts at or after the start of the match; -1 when there is none
BlankLineBefore ==
    LET before == {i \in BlankLines : i + 2 <= MatchPos}
    IN  IF before = {} THEN -1 ELSE Max(before)
BlankLineAfter ==
    LET after == {i \in BlankLines : i >= MatchPos}
    IN  IF after = {} THEN -1 ELSE Min(after)

WindowContained ==
    FinalRange.start <= InitialStart /\ FinalRange.end >= InitialEnd

WithinParagraphWindow ==
    /\ MatchPos - FinalRange.start <= Max2(context_chars, ParagraphWindow)
    /\ FinalRange.end - MatchPos <= Max2(Len(search_term) + context_chars, ParagraphWindow)

\* C19, as claimed: the paragraph search is bounded by a 500-character window:
\* when the query is found at p, the excerpt never starts more than
\* max(contextChars, 500) before p nor ends more than
\* max(len(query) + contextChars, 500) after p
C19_ExcerptWithinWindow ==
    (Extracted /\ MatchPos >= 0) => WithinParagraphWindow

\* C19, amended: that bound holds of get_excerpt; get_content_excerpt has no
\* window: it starts just after the nearest blank line that ends at or before
\* the initial start (unless that one is at offset 0) and ends at the
\* nearest blank line from the initial end on, however far away they are
C19_ExcerptWithinWindowOrParagraph ==
    (Extracted /\ MatchPos >= 0) =>
        /\ ex_pc = "get_excerpt" => WithinParagraphWindow
        /\ ex_pc = "get_content_excerpt" =>
               LET before == {i \in BlankLines : i + 2 <= InitialStart}
                   after == {i \in BlankLines : i >= InitialEnd}
               IN  /\ FinalRange.start =
                          IF before # {} /\ Max(before) > 0
                          THEN Max(before) + 2 ELSE InitialStart
                   /\ FinalRange.end =
                          IF after # {} /\ Min(after) > 0 THEN Min(after) ELSE InitialEnd

\* C19 witness: get_excerpt left alone a blank line 500 or more before the match
C19_Witness ==
    /\ ex_pc = "get_excerpt"
    /\ MatchPos > ParagraphWindow
    /\ BlankLineBefore > 0
    /\ BlankLineBefore <= MatchPos - ParagraphWindow
    /\ FinalRange.start = InitialStart
    /\ Len(excerpt) > 2 * Len(Ellipsis)

\* C23: when the query is found in the content, the excerpt is the trimmed
\* slice content[start:end] of the final range, with the ellipsis marker in
\* front of it exactly when start > 0 and after it exactly when
\* end < len(content)
C23_EllipsisMarksCuts ==
    (Extracted /\ MatchPos >= 0) =>
        LET r == FinalRange
        IN  excerpt = (IF r.start > 0 THEN Ellipsis ELSE <<>>)
                         \o Strip(Slice(content, r.start, r.end))
                         \o (IF r.end < Len(content) THEN Ellipsis ELSE <<>>)

----------------------------------------------------------------------------
(* Claims about the hallucination filter, under SpecFilter *)

W_daenerys == <<"d","a","e","n","e","r","y","s">>
W_dorne == <<"d","o","r","n","e">>

\* C7 (as claimed): the suspect set holds every capitalized word of the answer
\* that is longer than 3 characters, not on the stoplist and nowhere in the
\* context; for the example the note the filter appends names an entity with
\* "Daenerys" or "Dorne" in it.
C7_CapitalizedWordsSuspected ==
    f_pc = "done" =>
        /\ \A w \in capitalized_words(f_response) :
               (/\ Len(w) > EntityMinChars
                /\ Lower(w) \notin common_words
                /\ ~Contains(Lower(f_context), Lower(w)))
                   => Lower(w) \in f_suspects
        /\ (f_response = ExampleAnswer /\ f_context = ExampleContext)
               => \E e \in f_output.flagged :
                      Contains(e, W_daenerys) \/ Contains(e, W_dorne)

\* the answer holds none of the uncertainty phrases
NoUncertaintyPhrase ==
    \A k \in 1..Len(uncertainty_phrases) :
        ~Contains(Lower(f_response), uncertainty_phrases[k])

\* what the returned string holds after the answer and the blank line
NoteText == Slice(f_output.returned, Len(f_response) + 2, Len(f_output.returned))

\* the note cut at its double quotes: the quoted entities are the even pieces
NotePieces == Split(NoteText, Quote)
ListedIn(pieces) == {pieces[2 * i] : i \in 1..(Len(pieces) \div 2)}

\* C20: when the suspect set is non-empty and the answer holds no uncertainty
\* phrase, the filter returns the answer, unmodified, then a blank line, then
\* a disclaimer that lists exactly min(3, |suspects|) distinct suspects and
\* nothing that is not a suspect
C20_DisclaimerListsUpToThreeSuspects ==
    (f_pc = "done" /\ f_suspects # {} /\ NoUncertaintyPhrase) =>
        LET pieces == NotePieces
            n == Min2(MaxListed, Cardinality(f_suspects))
        IN  /\ Slice(f_output.returned, 0, Len(f_response)) = f_response
            /\ Slice(f_output.returned, Len(f_response), Len(f_response) + 2)
                   = ParagraphBreak
            /\ Len(pieces) = 2 * n + 1
            /\ pieces[1] = DisclaimerPrefix
            /\ pieces[2 * n + 1] = DisclaimerSuffix
            /\ \A i \in 1..(n - 1) : pieces[2 * i + 1] = CommaSpace
            /\ ListedIn(pieces) \subseteq f_suspects
            /\ Cardinality(ListedIn(pieces)) = n

\* C20 witness: an answer with more suspects than the note lists
C20_Witness ==
    /\ f_pc = "done"
    /\ NoUncertaintyPhrase
    /\ Cardinality(f_suspects) > MaxListed
    /\ Cardinality(ListedIn(NotePieces)) = MaxListed
    /\ f_context # <<>>

\* some suspect occurs in the lower-cased answer as it is written in the set
SuspectInAnswer == \E e \in f_suspects : Contains(Lower(f_response), e)

\* C21, as claimed: if the suspect set is empty, or the answer holds an
\* uncertainty phrase while the suspect set is not empty, the filter returns
\* the answer unchanged, no disclaimer appended
C21_UnchangedWhenUncertain ==
    (f_pc = "done" /\ (f_suspects = {} \/ ~NoUncertaintyPhrase)) =>
        f_output.returned = f_response

\* C21, amended: the filter returns the answer unchanged if the suspect set
\* is empty, or if the answer holds an uncertainty phrase and, lower-cased,
\* the text of at least one suspect
C21_UnchangedWhenUncertainAboutSuspect ==
    (f_pc = "done" /\ (f_suspects = {} \/ (~NoUncertaintyPhrase /\ SuspectInAnswer))) =>
        (f_output.returned = f_response /\ f_output.flagged = {})

\* C21 witness: an answer with suspects, kept as it is for its phrase
C21_Witness ==
    /\ f_pc = "done"
    /\ f_suspects # {}
    /\ ~NoUncertaintyPhrase
    /\ SuspectInAnswer
    /\ \E e \in f_suspects : ~Contains(Lower(f_response), e)
    /\ f_output.returned = f_response

----------------------------------------------------------------------------
(* Claims about answer generation, under SpecGen *)

\* the answer is one the rule-based formatter gives for the query and context
RuleBasedAnswer ==
    /\ answer.kind = "return"
    /\ \E r \in rule_based_responses(known_locations, gen_query, gen_context) :
           answer.text = r.text

\* C3 (as claimed): with no provider or no API key configured,
\* LLMIntegration.generate_response returns the rule-based formatter's answer
\* for every query and context, and does not raise.
C3_NoBackendStillAnswers ==
    (gen = "LLMIntegration" /\ (llm_provider = None \/ api_key = None))
        => RuleBasedAnswer

\* C4 (as claimed): when the remote call fails for a query with non-empty
\* context, the answer returned is the rule-based formatter's answer; the
\* failure is not surfaced to the caller.
C4_RemoteFailureFallsBack ==
    (gen = "LLMIntegration" /\ remote = "failed" /\ gen_context # <<>>)
        => RuleBasedAnswer

ClaimedKeywords == <<{K_who, K_what_is}, {K_where}, {K_when}, {K_why}, {K_how}>>
ClaimedBranches == <<"about", "location", "time", "reason", "process">>
Mentions(q, k) == \E w \in ClaimedKeywords[k] : Contains(Lower(q), w)

\* the branch taken is that of the first keyword group, in the claimed order,
\* with a keyword in the query, and the general one when there is none
FirstMatchWins ==
    /\ \A k \in 1..Len(ClaimedBranches) :
           (branch = ClaimedBranches[k])
               <=> (Mentions(gen_query, k) /\ \A j \in 1..(k - 1) : ~Mentions(gen_query, j))
    /\ (branch = "general") <=> (\A k \in 1..Len(ClaimedBranches) : ~Mentions(gen_query, k))

\* C8 (as claimed): whenever the rule-based generator answers, the branch is
\* picked first-match-wins in the order who/"what is", where, when, why, how,
\* general, by case-insensitive substring match on the raw query.
C8_FirstMatchWinsAlways ==
    (gen # "none" /\ branch # "none") => FirstMatchWins

\* C8 (amended): the same, for a non-empty context; with an empty context the
\* generator answers with a no-information phrase before it looks at the query.
C8_FirstMatchWinsWithContext ==
    (gen # "none" /\ branch # "none" /\ gen_context # <<>>) => FirstMatchWins

C8_Witness ==
    /\ gen = "LLMIntegration"
    /\ gen_query = ExampleQuery
    /\ gen_context = Ctx_Jon
    /\ branch = "about"

\* the indicator list and the two templates of the time and of the reason
\* formatter
IndicatorsOf(b) == IF b = "time" THEN time_indicators ELSE reason_indicators
TemplateOf(b) == IF b = "time" THEN TimePrefix ELSE ReasonPrefix
FallbackTemplateOf(b) == IF b = "time" THEN TimeFallbackPrefix ELSE ReasonFallbackPrefix

\* where the indicator first occurs in the context, case-insensitively (an
\* offset from 0 into the context; -1 when it does not occur): the offset
\* into the lower-cased context when lower-casing keeps its length
OccurrenceOf(indicator, ctx) ==
    IF Len(Lower(ctx)) = Len(ctx) THEN Find(Lower(ctx), Lower(indicator), 0)
    ELSE LET at == {p \in 0..Len(ctx) :
                       \E n \in 1..Len(indicator) :
                           /\ p + n <= Len(ctx)
                           /\ Lower(Slice(ctx, p, p + n)) = Lower(indicator)}
         IN  IF at = {} THEN -1 ELSE Min(at)

\* the length of the occurrence at offset p
OccurrenceLen(indicator, ctx, p) ==
    CHOOSE n \in 1..Len(indicator) : Lower(Slice(ctx, p, p + n)) = Lower(indicator)

\* the sentence around offset idx: the trimmed text from just after the
\* nearest period before idx, or from the start, up to the next period at or
\* after idx, or to the end
EnclosingSentence(ctx, idx) ==
    LET before == {i \in 1..idx : ctx[i] = "."}
        after == {i \in (idx + 1)..Len(ctx) : ctx[i] = "."}
        from == IF before = {} THEN 1 ELSE Max(before) + 1
        to == IF after = {} THEN Len(ctx) ELSE Min(after) - 1
    IN  Strip(SubSeq(ctx, from, to))

\* the text up to the first blank line
FirstParagraph(ctx) ==
    LET b == Find(ctx, ParagraphBreak, 0)
    IN  IF b < 0 THEN ctx ELSE SubSeq(ctx, 1, b)

\* C24: the time formatter, and the reason formatter likewise, tries its
\* indicators in list order; for the first one in that order that occurs in
\* the context, case-insensitively, the answer is the template around the
\* sentence enclosing the indicator's first occurrence, and that sentence
\* contains the occurrence; only when no indicator occurs is the answer the
\* fallback template with the first paragraph
C24_SentenceOfFirstIndicator ==
    (gen # "none" /\ answer.kind = "return" /\ branch \in {"time", "reason"}) =>
        LET indicators == IndicatorsOf(branch)
            occurring == {i \in 1..Len(indicators) :
                             OccurrenceOf(indicators[i], gen_context) >= 0}
        IN  IF occurring = {}
            THEN answer.text = FallbackTemplateOf(branch) \o FirstParagraph(gen_context)
            ELSE LET indicator == indicators[Min(occurring)]
                     idx == OccurrenceOf(indicator, gen_context)
                     S == EnclosingSentence(gen_context, idx)
                 IN  /\ answer.text = TemplateOf(branch) \o S \o <<".">>
                     /\ Contains(S, Slice(gen_context, idx,
                                           idx + OccurrenceLen(indicator, gen_context, idx)))

----------------------------------------------------------------------------
(* Claims about the chatbots' process_question, under SpecChat *)

\* process_question has returned an answer made from an empty context
AnsweredWithoutContext == pq.kind = "return" /\ pq.context = <<>>

\* C11, as claimed: whenever the assembled context is empty, the answer is
\* one of the six fixed no-information phrases, whichever chatbot answers
C11_NoInfoPhraseOnEveryPath ==
    AnsweredWithoutContext => pq.response \in get_no_info_response

\* C11, amended: with an empty context the rule-based and the LLM chatbot
\* answer with one of the six phrases (the LLM chatbot always with the first),
\* and the placeholder chatbot with its own fixed phrase, the first of the six
\* followed by an invitation to ask something else
C11_NoInfoPhrasePerChatbot ==
    AnsweredWithoutContext =>
        CASE chatbot = "GOTChatbot" -> pq.response \in get_no_info_response
          [] chatbot = "GOTChatbotLLM" -> pq.response = no_info_responses[1]
          [] OTHER -> /\ pq.response = PlaceholderNoInfo
                      /\ Slice(pq.response, 0, Len(no_info_responses[1])) = no_info_responses[1]
                      /\ pq.response \notin get_no_info_response

C11_Witness ==
    /\ AnsweredWithoutContext
    /\ chatbot = "Placeholder"
    /\ store # <<>>
    /\ conversation_history # <<>>

\* process_question has ended, with an answer or an exception
QuestionEnded == pq.kind # "none"

\* the text search of the call in progress failed in the store
TextSearchFailed == pq.path = "lexical" /\ pq.env.text = "raise"

\* C12: process_question never raises because of a store failure: the failure
\* is caught at the search call, the search yields no results and the caller
\* gets a no-information answer
C12_StoreFailureNeverRaises ==
    QuestionEnded =>
        /\ ~pq.raised
        /\ TextSearchFailed =>
               /\ pq.hits = <<>>
               /\ pq.kind = "return"
               /\ pq.response \in get_no_info_response \cup {PlaceholderNoInfo}

\* a step of the vector path of the call in progress failed: the check of the
\* vector collection, the embedding of the query or the vector query
VectorStepFailed ==
    /\ chatbot # "Placeholder"
    /\ embeddings # None
    /\ \/ pq.env.count = "raise"
       \/ /\ pq.env.count = "nonempty"
          /\ (pq.env.embed = "raise" \/ pq.env.vquery = "raise")

\* C13: whenever the vector path is selected and a step of it fails, the
\* assembler uses the lexical search results for the same query and limit, and
\* the caller of create_context sees no error
C13_VectorFailureFallsBackSilently ==
    (QuestionEnded /\ VectorStepFailed) =>
        /\ ~pq.raised
        /\ pq.fallback
        /\ pq.hits \in search(store, ChatMaxDocs, pq.env)

\* the turn process_question appends for the call frame f
TurnOf(f) ==
    [question |-> f.question, response |-> f.response,
     context_used |-> IF f.context = <<>> THEN NoneText
                      ELSE Slice(f.context, 0, HistoryPreviewChars) \o Ellipsis]

\* C22: every process_question call that returns appends exactly one turn
\* {question, response, context_used} to the end of conversation_history and
\* leaves the earlier turns as they were, so the history grows by one turn per
\* answered question, in order; context_used is the first 100 characters of
\* the context followed by "...", or "None" when the context is empty; no
\* other step changes the history
C22_HistoryAppendOnly ==
    [][/\ (pq.kind = "none" /\ pq'.kind = "return") =>
              conversation_history' = Append(conversation_history, TurnOf(pq'))
       /\ ~(pq.kind = "none" /\ pq'.kind = "return") =>
              conversation_history' = conversation_history]_vars

\* a second question was answered from a context longer than the preview,
\* after a first one answered without context
C22_Witness ==
    /\ pq.kind = "return"
    /\ Len(conversation_history) = 2
    /\ conversation_history[1].context_used = NoneText
    /\ Len(pq.context) > HistoryPreviewChars
    /\ conversation_history[2] = TurnOf(pq)
    /\ Len(conversation_history[2].context_used) = HistoryPreviewChars + 3

----------------------------------------------------------------------------
(* Claims about the web application, under SpecWeb *)

\* the request has been answered and its question was missing or empty
RejectedQuestion(r) ==
    /\ requests[r].pc = "done"
    /\ requests[r].endpoint = "chat"
    /\ requests[r].body.question \in {Absent, <<>>}

\* C25: the chat endpoint answers a request whose question is missing or
\* empty with status 400, without calling process_question and without
\* writing to the store
C25_EmptyQuestionRejected ==
    \A r \in DOMAIN requests :
        RejectedQuestion(r) =>
            /\ requests[r].status = 400
            /\ ~requests[r].called
            /\ ~requests[r].imported

\* C30: the lazily initialised chatbot is constructed at most once in a
\* process, and all requests that use the chatbot use the same instance
C30_OneChatbotPerProcess ==
    /\ Len(instances) <= 1
    /\ \A r, t \in DOMAIN requests :
           (requests[r].used # 0 /\ requests[t].used # 0) =>
               requests[r].used = requests[t].used

----------------------------------------------------------------------------
(* Claims about the scraper, under SpecScrape *)

\* C26: in one run the pages scraped, important and general together, are
\* never more than max_pages, for every max_pages >= 0, unless the limit was
\* removed; and no title of the existing-titles set the run started with is
\* fetched
C26_WithinMaxPagesAndNoRefetch ==
    scraper.pc # "idle" =>
        /\ ~scraper.no_limit =>
               Len(scraper.successful_important) + Len(scraper.successful_general)
                   <= scraper.max_pages
        /\ \A i \in 1..Len(scraper.fetched) : scraper.fetched[i] \notin scraper.start

----------------------------------------------------------------------------
(* Claims about the deduplication, under SpecDedup *)

\* the lines of a text
LinesOf(text) == Split(text, Newline)

\* the places of the lines that are not blank and whose trimmed text no
\* earlier line has
FirstOccurrences(lines) ==
    {i \in 1..Len(lines) :
        /\ Strip(lines[i]) # <<>>
        /\ \A j \in 1..(i - 1) : Strip(lines[j]) # Strip(lines[i])}

\* the elements of a sequence at the places of a set, in their order
RECURSIVE Pick(_, _)
Pick(seq, places) ==
    IF places = {} THEN <<>>
    ELSE <<seq[Min(places)]>> \o Pick(seq, places \ {Min(places)})

\* C27: deduplicate_text returns the lines of its input without the blank
\* lines and without the lines whose trimmed text an earlier line has, first
\* occurrences in their order and with their spacing; the result holds no
\* blank-line paragraph boundary, and deduplicating it again changes nothing
C27_FirstOccurrencesKept ==
    /\ dedup.pc \in {"once", "twice"} =>
           /\ dedup.once =
                  Join(Pick(LinesOf(dedup.text), FirstOccurrences(LinesOf(dedup.text))),
                       Newline)
           /\ ~Contains(dedup.once, ParagraphBreak)
    /\ dedup.pc = "twice" => dedup.twice = dedup.once

\* a text with a blank line, two lines of the same trimmed text and different
\* spacing, deduplicated twice
C27_Witness ==
    /\ dedup.pc = "twice"
    /\ dedup.text = <<"a", "\n", "\n", " ", "a">>
    /\ dedup.once = <<"a">>

----------------------------------------------------------------------------
(* Claims about the chunking, under SpecChunks *)

\* C28: for chunk_size > overlap >= 0, on every pass of the chunking loop the
\* next chunk starts strictly after the current one and never before the
\* start of the text, also when the chunk was cut at a sentence end
C28_NextChunkStartsLater ==
    [][(chunker.pc = "loop" /\ chunker'.pc = "loop"
            /\ chunker'.chunk_id = chunker.chunk_id + 1) =>
           /\ chunker'.current_pos > chunker.current_pos
           /\ chunker'.current_pos >= 0]_vars

----------------------------------------------------------------------------
(* Claims about the listing of pages, under SpecPages *)

\* C29: the pagination loop of get_all_pages exits as soon as an answer has
\* no continuation token or the limit is reached, and also when an answer
\* has no query.allpages section
C29_LoopExits ==
    [][(pager.pc = "loop" /\ pager'.calls = pager.calls + 1) =>
           ((\/ ~pager'.resp.allpages
             \/ pager'.resp.apcontinue = None
             \/ (~pager'.no_limit /\ pager'.page_count >= pager'.limit))
                => pager'.pc # "loop")]_vars

----------------------------------------------------------------------------
(* Claims about imports and concurrent searches, under SpecImport *)

\* the document the import's loop writes for an item of its batch
DocumentOf(call, item) ==
    IF call.kind = "directory"
    THEN Doc(Strip(item.title), Strip(item.content), item.filename)
    ELSE item

\* a search ran while an import was between its first and its last item
SearchedDuringImport == snapshot.taken /\ snapshot.import.pc = "running"

\* the collection once the import of the call has completed
ImportedAfter(call) ==
    IF call.kind = "directory"
    THEN import_directory_loop([coll |-> call.before, last |-> "none"], call.batch).coll
    ELSE import_jsonl_loop([coll |-> call.before, last |-> "none"], call.batch).coll

\* field f of the document titled t once the first k items of the batch are
\* written: the value of the last of them that carries f, else the value the
\* store held before the import
FieldAfterPrefix(call, k, t, f) ==
    LET writers == {j \in 1..k : /\ DocumentOf(call, call.batch[j]).title = t
                                 /\ DocumentOf(call, call.batch[j])[f] # Absent}
        stored == {i \in 1..Len(call.before) : call.before[i].title = t}
    IN  IF writers # {} THEN DocumentOf(call, call.batch[Max(writers)])[f]
        ELSE IF stored # {} THEN call.before[Min(stored)][f]
        ELSE Absent

\* C14, as claimed: a search concurrent with an import sees the store as it
\* was before the import or as it is after it, never a partial batch
C14_SearchSeesBeforeOrAfter ==
    SearchedDuringImport =>
        snapshot.hits \in RankedHits(snapshot.import.before, MaxDocsLimit)
                            \cup RankedHits(ImportedAfter(snapshot.import), MaxDocsLimit)

\* C14, amended: a search concurrent with an import sees the store as it is
\* after some prefix of the import's upserts: each document it sees is whole,
\* one per title, as the first k items of the batch leave it
C14_SearchSeesPrefixOfImport ==
    SearchedDuringImport =>
        /\ \A i, j \in 1..Len(snapshot.hits) :
               i # j => snapshot.hits[i].title # snapshot.hits[j].title
        /\ \E k \in 0..Len(snapshot.import.batch) :
               \A i \in 1..Len(snapshot.hits) :
                   \A f \in FieldNames :
                       snapshot.hits[i][f] =
                           FieldAfterPrefix(snapshot.import, k, snapshot.hits[i].title, f)

C14_Witness ==
    /\ SearchedDuringImport
    /\ Len(snapshot.hits) = 2
    /\ snapshot.import.pending # <<>>
    /\ Len(snapshot.import.pending) < Len(snapshot.import.batch)
    /\ snapshot.hits \notin RankedHits(snapshot.import.before, MaxDocsLimit)
    /\ snapshot.hits \notin RankedHits(ImportedAfter(snapshot.import), MaxDocsLimit)

\* the number of items of its batch the import in progress has gone through
ItemsDone == Len(import_call.batch) - Len(import_call.pending)

\* the document of the item the import went through last
LastDocument == DocumentOf(import_call, import_call.batch[ItemsDone])

\* the import's last step was update_one with a document whose title was stored
UpsertedOverStored ==
    /\ import_call.pc = "running"
    /\ ~snapshot.taken
    /\ ItemsDone >= 1
    /\ LastDocument.title # Absent
    /\ last_write = "matched"

\* the document stored under the title of the last write
StoredUnderLastTitle ==
    store[CHOOSE i \in 1..Len(store) : store[i].title = LastDocument.title]

\* C15, as claimed: after upserting d for a title already stored, the document
\* stored under that title equals d, content and every other attribute
C15_StoredEqualsLastWrite ==
    UpsertedOverStored => StoredUnderLastTitle = LastDocument

\* C15, amended: after upserting d for a title already stored, every
\* attribute d carries, content included, has d's value in the stored
\* document, and every attribute d lacks keeps the value stored before
C15_StoredMergesLastWrite ==
    UpsertedOverStored =>
        \A f \in FieldNames :
            StoredUnderLastTitle[f] =
                IF LastDocument[f] # Absent THEN LastDocument[f]
                ELSE FieldAfterPrefix(import_call, ItemsDone - 1, LastDocument.title, f)

C15_Witness ==
    /\ UpsertedOverStored
    /\ LastDocument.filename = Absent
    /\ StoredUnderLastTitle.filename # Absent
    /\ StoredUnderLastTitle.content = LastDocument.content
    /\ ItemsDone = 1
    /\ \E i \in 1..Len(import_call.before) :
           /\ import_call.before[i].title = LastDocument.title
           /\ import_call.before[i].content # LastDocument.content

====
